---- MODULE Spec2Model ----
(***************************************************************************)
(* Model of nixpkgs-pr-watch of vdemeester/x:                              *)
(*   - internal/pr rate limiter (RateLimiter, source appended to           *)
(*     src/internal/pr/matcher_test.go, lines 474-545),                    *)
(*   - internal/pr fetcher (src/internal/pr/fetcher.go),                   *)
(*   - the PR part of runWatch (src/cmd/nixpkgs-pr-watch/watch.go),        *)
(*   - internal/cache, from its contract and its tests (appended to        *)
(*     src/internal/config/config.go, lines 94-413),                       *)
(*   - internal/pr matcher (src/internal/pr/matcher.go),                   *)
(*   - the Update loop of lazypr (src/cmd/lazypr/app.go).                  *)
(*                                                                         *)
(* Specifications:                                                         *)
(*   SpecRL     the rate limiter alone, driven by Wait/recordRequest/Reset;*)
(*   Spec       repeated invocations of runWatch against a remote source   *)
(*              and a persistent cache;                                    *)
(*   SpecCache  one TTL cache under concurrent Set, Get, Delete, Clear and *)
(*              a clock;                                                   *)
(*   SpecNS     the cache instances of one namespace, with Info;           *)
(*   SpecConc   goroutines calling Wait and recordRequest of one limiter;  *)
(*   SpecMatch  MatchAll over lists of records, and addMatch sequences;    *)
(*   SpecTitle  matchPR over titles typed piece by piece, for short names; *)
(*   SpecWord   the same for names of 3 characters and more;               *)
(*   SpecNil    MatchAll of a Matcher made from any dependencies, nil too; *)
(*   SpecFiles  phase 1 of matchPR, one changed file at a time;            *)
(*   SpecConf   HighestConfidence over match lists in every order;         *)
(*   SpecRace   goroutines sharing the pattern cache of one Matcher;       *)
(*   SpecFetch  one fetch against a remote source that answers as it       *)
(*              likes, with weak fairness of its steps;                    *)
(*   SpecBase   invocations of runWatch with a base-branch filter;         *)
(*   SpecTUI    lazypr: list pane, filter line and input modal.            *)
(***************************************************************************)
EXTENDS Integers, Sequences, FiniteSets, TLC

VARIABLES
    goarch,     \* the build's GOARCH: decides out-of-range float64->int64 conversions
    rl,         \* RateLimiter fields: baseDelay, backoffRate, maxDelay, requestCount
    lastWait,   \* the Wait just made: the requestCount it saw and the delay it slept
    cache,      \* the persistent cache namespace "nixpkgs-pr-watch": key -> entry
    run,        \* locals of the runWatch invocation in progress, and its position
    f,          \* frame of FetchNixpkgsPRsWithCursor / fetchPRBatchWithRetry
    ghost,      \* history of the invocation: remote calls issued, records delivered
    runs,       \* number of invocations started so far
    kv,         \* internal/cache on its own: clock, storage, goroutines or instances
    mt,         \* a Matcher at work: dependencies, records, results
    gs,         \* goroutines calling Wait and recordRequest of one RateLimiter
    tui         \* cmd/lazypr: the bubbletea Model and the command of its last Update

\* the variables of the fetch pipeline
pipeVars == <<goarch, rl, lastWait, cache, run, f, ghost, runs>>

vars == <<goarch, rl, lastWait, cache, run, f, ghost, runs, kv, mt, gs, tui>>

(***************************************************************************)
(* Bounds of the model.                                                    *)
(***************************************************************************)
\* largest requestCount the stand-alone rate limiter is driven to
MaxRequests == 70
\* number of runWatch invocations explored
MaxRuns == 3
\* number of open pull requests the remote source holds
RemoteTotal == 250
\* number of goroutines calling Set on the cache
NumWriters == 2
\* last tick of the cache's clock
MaxTime == 3
\* longest list of records handed to MatchAll
MaxPRs == 2
\* longest list of matches appended to one MatchResult by addMatch alone
MaxMatches == 4
\* number of pieces a typed title is made of
MaxFragments == 3

\* number of pieces a title matched against longer names is made of
MaxWords == 3

\* number of goroutines sharing one RateLimiter
NumCallers == 3

\* characters typed into the input modal of lazypr
MaxMessage == 1

\* load commands of lazypr in flight at one time
MaxLoads == 1

\* invocations of runWatch with a base-branch filter
MaxBaseRuns == 3

\* number of changed files of a record matched file by file
MaxFiles == 3

(***************************************************************************)
(* Arbitrary-precision naturals: time.Duration is an int64 count of        *)
(* nanoseconds, which does not fit TLC's 32-bit integers.  A natural is a  *)
(* little-endian sequence of limbs in base 10^4 without leading zeros.     *)
(***************************************************************************)
LimbBase == 10 ^ 4

RECURSIVE BigStrip(_)
BigStrip(a) ==
    IF a = <<>> THEN <<>>
    ELSE IF a[Len(a)] = 0 THEN BigStrip(SubSeq(a, 1, Len(a) - 1))
    ELSE a

RECURSIVE BigFromNat(_)
BigFromNat(n) ==
    IF n = 0 THEN <<>> ELSE <<n % LimbBase>> \o BigFromNat(n \div LimbBase)

RECURSIVE BigMulCarry(_, _, _)
BigMulCarry(a, m, carry) ==
    IF a = <<>> THEN BigFromNat(carry)
    ELSE LET p == a[1] * m + carry
         IN  <<p % LimbBase>> \o BigMulCarry(Tail(a), m, p \div LimbBase)

\* a * m for a small multiplier m
BigMulSmall(a, m) == BigStrip(BigMulCarry(a, m, 0))

RECURSIVE BigDivRem(_, _, _)
\* limbs of a \div d, most significant limb processed first
BigDivRem(a, d, rem) ==
    IF a = <<>> THEN <<>>
    ELSE LET cur == rem * LimbBase + a[Len(a)]
         IN  BigDivRem(SubSeq(a, 1, Len(a) - 1), d, cur % d) \o <<cur \div d>>

\* floor(a / d) for a small divisor d
BigDivSmall(a, d) == BigStrip(BigDivRem(a, d, 0))

RECURSIVE BigMulPow(_, _, _)
\* a * m^n (the test on Len makes TLC compute each product before the next)
BigMulPow(a, m, n) ==
    IF n = 0 THEN a
    ELSE LET b == BigMulSmall(a, m)
         IN  IF Len(b) >= 0 THEN BigMulPow(b, m, n - 1) ELSE <<>>

RECURSIVE BigDivPow(_, _, _)
\* floor(a / d^n)
BigDivPow(a, d, n) ==
    IF n = 0 THEN a
    ELSE LET b == BigDivSmall(a, d)
         IN  IF Len(b) >= 0 THEN BigDivPow(b, d, n - 1) ELSE <<>>

RECURSIVE BigLessFrom(_, _, _)
BigLessFrom(a, b, i) ==
    IF i = 0 THEN FALSE
    ELSE IF a[i] # b[i] THEN a[i] < b[i]
    ELSE BigLessFrom(a, b, i - 1)

BigLess(a, b) ==
    IF Len(a) # Len(b) THEN Len(a) < Len(b) ELSE BigLessFrom(a, b, Len(a))

RECURSIVE BigPred(_)
\* a - 1, for a > 0
BigPred(a) ==
    IF a[1] > 0 THEN BigStrip(<<a[1] - 1>> \o Tail(a))
    ELSE <<LimbBase - 1>> \o BigPred(Tail(a))

(***************************************************************************)
(* time.Duration: a signed 64-bit number of nanoseconds.                   *)
(***************************************************************************)
Dur(neg, mag) == [neg |-> neg /\ mag # <<>>, mag |-> mag]

DurZero == Dur(FALSE, <<>>)
Nanoseconds(n) == Dur(FALSE, BigFromNat(n))
Milliseconds(n) == Dur(FALSE, BigMulSmall(BigMulSmall(BigFromNat(n), 1000), 1000))
Seconds(n) == Dur(FALSE, BigMulSmall(BigMulSmall(BigMulSmall(BigFromNat(n), 1000), 1000), 1000))

TwoTo63 == BigMulPow(<<1>>, 2, 63)
MinInt64 == Dur(TRUE, TwoTo63)
MaxInt64 == Dur(FALSE, BigPred(TwoTo63))

\* a < b on signed durations
DurLess(a, b) ==
    IF a.neg /\ ~b.neg THEN TRUE
    ELSE IF ~a.neg /\ b.neg THEN FALSE
    ELSE IF a.neg THEN BigLess(b.mag, a.mag)
    ELSE BigLess(a.mag, b.mag)

DurMin(a, b) == IF DurLess(b, a) THEN b ELSE a

(***************************************************************************)
(* Rate limiter (type RateLimiter).  backoffRate is a float64; the rates   *)
(* used by the program (1.5) and its tests (2.0) are binary fractions      *)
(* num/den, so baseDelay * backoffRate^e is computed exactly as            *)
(* baseDelay * num^e / den^e.  float64 carries 53 significant bits: every  *)
(* product below maxDelay is exact for these parameters, and the relative  *)
(* rounding error of larger products (2^-53) cannot move them across       *)
(* maxDelay or 2^63.                                                       *)
(***************************************************************************)
GoArchs == {"amd64", "arm64"}

Rate(num, den) == [num |-> num, den |-> den]

NewRateLimiter(baseDelay, backoffRate, maxDelay) ==
    [baseDelay |-> baseDelay, backoffRate |-> backoffRate,
     maxDelay |-> maxDelay, requestCount |-> 0]

\* NewFetcher: 100ms base delay, 1.5x exponential backoff, capped at 5s
FetcherRateLimiter == NewRateLimiter(Milliseconds(100), Rate(3, 2), Seconds(5))

\* the limiter of NewFetcher and the limiters the tests construct
RLConfigs ==
    { FetcherRateLimiter,
      NewRateLimiter(Milliseconds(100), Rate(2, 1), Seconds(5)),
      NewRateLimiter(Milliseconds(100), Rate(2, 1), Seconds(1)),
      NewRateLimiter(Milliseconds(50), Rate(3, 2), Seconds(1)),
      NewRateLimiter(Milliseconds(10), Rate(2, 1), Seconds(1)) }

shouldDelay(r) == r.requestCount > 0

\* floor of float64(baseDelay) * math.Pow(backoffRate, float64(requestCount - 1))
FloatDelay(r) ==
    LET exponent == r.requestCount - 1
    IN  IF exponent >= 0
        THEN BigDivPow(BigMulPow(r.baseDelay.mag, r.backoffRate.num, exponent),
                       r.backoffRate.den, exponent)
        ELSE BigDivSmall(BigMulSmall(r.baseDelay.mag, r.backoffRate.den),
                         r.backoffRate.num)

\* time.Duration(x) for a float64 x >= 0 with integer part fl.  Go: a
\* conversion whose result type cannot represent the value succeeds with an
\* implementation-dependent result; amd64 (CVTTSD2SQ) yields the minimum
\* int64, arm64 (FCVTZS) saturates at the maximum.
FloatToDuration(fl, arch) ==
    IF BigLess(fl, TwoTo63) THEN Dur(FALSE, fl)
    ELSE IF arch = "amd64" THEN MinInt64 ELSE MaxInt64

calculateDelay(r, arch) ==
    LET delay == FloatToDuration(FloatDelay(r), arch)
    IN  IF DurLess(r.maxDelay, delay) THEN r.maxDelay ELSE delay

\* the duration Wait passes to time.Sleep (zero: no Sleep)
WaitDelay(r, arch) == IF shouldDelay(r) THEN calculateDelay(r, arch) ELSE DurZero

\* time.Sleep(d): the time the caller is blocked; a negative or zero
\* duration returns immediately
Sleep(d) == IF d.neg THEN DurZero ELSE d

\* the value of `delay := f.rateLimiter.Wait()` (fetcher.go:136): the
\* delay Wait applied, 0 when it did not delay (TestRateLimiter_Wait,
\* TestRateLimiter_NoDelayOnFirstRequest)
WaitReturn(r, arch) == WaitDelay(r, arch)

\* one call of Wait: the requestCount it saw, the duration it passed to
\* time.Sleep, the time it blocked, the value it returned
WaitCall(r, arch) ==
    [count |-> r.requestCount, delay |-> WaitDelay(r, arch),
     slept |-> Sleep(WaitDelay(r, arch)), returned |-> WaitReturn(r, arch)]

recordRequest(r) == [r EXCEPT !.requestCount = @ + 1]

Reset(r) == [r EXCEPT !.requestCount = 0]

\* Goroutines sharing a RateLimiter.  gs.mu is rl.mu: 0 when unlocked,
\* otherwise the goroutine holding it.  A goroutine g is at
\*   "idle"    before its call           "lock"    at rl.mu.Lock()
\*   "load"    reading requestCount      "store"   writing requestCount
\*   "should"  in shouldDelay            "calc"    in calculateDelay
\*   "unlock"  at the deferred Unlock    "done"    returned
\* v is the requestCount it read last, delay the delay of its Wait.
\* gs.called and gs.completed count the calls of recordRequest made and
\* returned; lo and hi are gs.completed at the call of a Wait and gs.called
\* at its return.
Callers == 1..NumCallers

IdleCaller == [op |-> "none", pc |-> "idle", v |-> 0, delay |-> DurZero, lo |-> 0, hi |-> 0]

NoCallers == [mu |-> 0, g |-> [c \in Callers |-> IdleCaller], called |-> 0, completed |-> 0]

\* no lazypr program
NoModel == [pc |-> "none"]

(***************************************************************************)
(* The remote source: RemoteTotal open pull requests, newest first.  A     *)
(* record is its PR number; the zero PullRequest value has number 0.  A    *)
(* cursor is opaque to the program; here it is the position of the last    *)
(* record of the page that returned it, and "" (no cursor) is 0.           *)
(***************************************************************************)
Remote == [i \in 1..RemoteTotal |-> i]

NoCursor == 0

Min(a, b) == IF a < b THEN a ELSE b

\* nodes of pullRequests(first: limit, after: after)
Page(limit, after) == SubSeq(Remote, after + 1, Min(after + limit, RemoteTotal))

\* pageInfo.endCursor: null (decoded as "") for a page without nodes
EndCursor(limit, after) ==
    IF Page(limit, after) = <<>> THEN NoCursor ELSE after + Len(Page(limit, after))

(***************************************************************************)
(* Errors are texts; a text is a sequence of fragments, and                *)
(* strings.Contains(text, s) is the occurrence of fragment s.  nil is the  *)
(* empty text.                                                             *)
(***************************************************************************)
NoErr == <<>>

Contains(text, s) == \E i \in 1..Len(text) : text[i] = s

\* what gh wrote to stderr when it exited with a failure status
GhStderr ==
    { <<"HTTP ", "502", ": Bad Gateway">>,
      <<"HTTP ", "504", ": Gateway Timeout">>,
      <<"dial tcp: i/o ", "timeout">>,
      <<"read: ", "connection reset", " by peer">>,
      <<"HTTP ", "401", ": Bad credentials">> }

\* what gh had written to stderr when the 30s context expired and
\* exec.CommandContext killed it: nothing
DeadlineStderr == { <<>> }

\* The results of one fetchPRBatch call.  cmd.Output() of a command killed at
\* the context deadline returns an *exec.ExitError (signal: killed) carrying
\* the captured stderr, like any other failure exit.
Outcomes ==
    { [kind |-> "ok", stderr |-> <<>>] }
    \cup { [kind |-> "exit", stderr |-> t] : t \in GhStderr }
    \cup { [kind |-> "deadline", stderr |-> t] : t \in DeadlineStderr }
    \cup { [kind |-> "start", stderr |-> <<>>] }

\* the error fetchPRBatch returns (fetcher.go:274-280)
fetchPRBatchErr(outcome) ==
    CASE outcome.kind = "ok" -> NoErr
      [] outcome.kind \in {"exit", "deadline"} -> <<"gh API failed: ">> \o outcome.stderr
      [] outcome.kind = "start" ->
            <<"failed to run gh API: ", "exec: \"gh\": executable file not found in $PATH">>

isRetryableError(err) ==
    \/ Contains(err, "502")
    \/ Contains(err, "503")
    \/ Contains(err, "504")
    \/ Contains(err, "timeout")
    \/ Contains(err, "connection reset")

\* GitHub's 100-record limit per request
maxPerRequest == 100
\* the maxRetries argument of fetchPRBatchWithRetry
maxRetries == 3

(***************************************************************************)
(* FetchNixpkgsPRsWithCursor and fetchPRBatchWithRetry, as operators on    *)
(* the frame fr of the call.  fr.pc is the position in the code:           *)
(*   "loop"      at the head of `for remaining > 0`, condition true        *)
(*   "attempt"   in the retry loop, about to call fetchPRBatch             *)
(*   "returned"  the function has returned retPRs, retCursor, retErr       *)
(***************************************************************************)
NoFrame ==
    [pc |-> "none", limit |-> 0, afterCursor |-> NoCursor, allPRs |-> <<>>,
     currentCursor |-> NoCursor, remaining |-> 0, batchNum |-> 0, batchSize |-> 0,
     attempt |-> 0, lastErr |-> NoErr, backoff |-> 0,
     retPRs |-> <<>>, retCursor |-> NoCursor, retErr |-> NoErr]

Return(fr, prs, cursor, err) ==
    [fr EXCEPT !.pc = "returned", !.retPRs = prs, !.retCursor = cursor, !.retErr = err]

\* `for remaining > 0`, and the return after the loop
LoopHead(fr) ==
    IF fr.remaining > 0 THEN [fr EXCEPT !.pc = "loop"]
    ELSE Return(fr, fr.allPRs, fr.currentCursor, NoErr)

FetchEnter(limit, afterCursor) ==
    LoopHead([NoFrame EXCEPT !.limit = limit, !.afterCursor = afterCursor,
                             !.currentCursor = afterCursor, !.remaining = limit])

\* slip: every request asks for a full page
BatchSizeFullPage(remaining) == maxPerRequest

BatchSize(remaining) == IF remaining > maxPerRequest THEN maxPerRequest ELSE remaining

\* slip: the short-page test is dropped
ShortBatchIgnored(n, batchSize) == FALSE

\* `if len(prs) < batchSize { break }`
ShortBatch(n, batchSize) == n < batchSize

\* slip: `return nil, currentCursor, err`
OnBatchErrorDropsRecords(fr, err) == Return(fr, <<>>, fr.currentCursor, err)

\* fetchPRBatchWithRetry returned an error: FetchNixpkgsPRsWithCursor returns
OnBatchError(fr, err) == Return(fr, fr.allPRs, fr.currentCursor, err)

\* fetchPRBatchWithRetry returned prs, cursor, nil
OnBatchSuccess(fr, prs, cursor) ==
    LET next == [fr EXCEPT !.allPRs = @ \o prs, !.currentCursor = cursor,
                           !.remaining = @ - Len(prs)]
    IN  IF ShortBatch(Len(prs), fr.batchSize)
        THEN Return(next, next.allPRs, next.currentCursor, NoErr)
        ELSE LoopHead(next)

\* slip: `attempt <= maxRetries`
RetryAgainOffByOne(attempt) == attempt <= maxRetries

\* whether the retry loop goes round again after a retryable failure
RetryAgain(attempt) == attempt < maxRetries

\* slip: the same pause before every retry
BackoffConstant(attempt) == 1

\* time.Duration(1<<uint(attempt-1)) * time.Second, in seconds
Backoff(attempt) == 2 ^ (attempt - 1)

FailedAfter(err) == <<"failed after 3 attempts: ">> \o err

\* slip: the isRetryableError test is missing, every failure is retried
AttemptStepRetriesAll(fr, outcome) ==
    LET err == fetchPRBatchErr(outcome)
    IN  IF err = NoErr
        THEN OnBatchSuccess(fr, Page(fr.batchSize, fr.currentCursor),
                            EndCursor(fr.batchSize, fr.currentCursor))
        ELSE IF RetryAgain(fr.attempt)
        THEN [fr EXCEPT !.lastErr = err, !.backoff = Backoff(fr.attempt),
                        !.attempt = @ + 1]
        ELSE OnBatchError([fr EXCEPT !.lastErr = err], FailedAfter(err))

\* one pass of the retry loop of fetchPRBatchWithRetry, the call of
\* fetchPRBatch having ended with `outcome`, and what the caller does with
\* the result when the function returns
AttemptStep(fr, outcome) ==
    LET err == fetchPRBatchErr(outcome)
    IN  IF err = NoErr
        THEN OnBatchSuccess(fr, Page(fr.batchSize, fr.currentCursor),
                            EndCursor(fr.batchSize, fr.currentCursor))
        ELSE IF ~isRetryableError(err)
        THEN OnBatchError([fr EXCEPT !.lastErr = err], err)
        ELSE IF RetryAgain(fr.attempt)
        THEN [fr EXCEPT !.lastErr = err, !.backoff = Backoff(fr.attempt),
                        !.attempt = @ + 1]
        ELSE OnBatchError([fr EXCEPT !.lastErr = err], FailedAfter(err))

NoWait == [count |-> -1, delay |-> DurZero, slept |-> DurZero, returned |-> DurZero]

(***************************************************************************)
(* The cache namespace "nixpkgs-pr-watch" as runWatch uses it: two         *)
(* entries, stored separately.  Get of an absent entry leaves the          *)
(* destination at its zero value and returns nil.  Set may fail (an I/O    *)
(* failure); runWatch only warns about it.                                 *)
(***************************************************************************)
metadataKey == "nixpkgs-prs-metadata"
prsKey == "nixpkgs-prs-data"
Keys == {metadataKey, prsKey}

\* the zero prCacheMetadata
ZeroMetadata == [MaxLimit |-> 0, Cursor |-> NoCursor]

Absent == [present |-> FALSE, payload |-> <<>>]

EmptyCache == [k \in Keys |-> Absent]

Get(c, key, zero) == IF c[key].present THEN c[key].payload ELSE zero

Set(c, key, value, ok) ==
    IF ok THEN [c EXCEPT ![key] = [present |-> TRUE, payload |-> value]] ELSE c

(***************************************************************************)
(* runWatch, from "Fetch PRs using incremental cache" to the call of       *)
(* MatchAll.  run.pc is the position of the invocation:                    *)
(*   "idle"      no invocation yet                                         *)
(*   "fetching"  inside fetcher.FetchNixpkgsPRsWithCursor                  *)
(*   "done"      prs handed to the matcher (run.matched)                   *)
(*   "failed"    runWatch returned "failed to fetch PRs"                   *)
(*   "panic"     the slice expression cachedPRs[:limit] panicked           *)
(***************************************************************************)
\* the values of --limit tried
Limits == {50, 150, 300}

NoRun ==
    [pc |-> "idle", limit |-> 0, refreshPRs |-> FALSE, branch |-> "none",
     metadata |-> ZeroMetadata, cachedPRs |-> <<>>, hasCachedPRs |-> FALSE,
     loadedMeta |-> FALSE, loadedPRs |-> FALSE,
     newPRs |-> <<>>, prs |-> <<>>, cursor |-> NoCursor, fetchErr |-> NoErr,
     sets |-> <<>>, setOk |-> <<>>, matched |-> <<>>]

\* "Load existing cache": hasCachedPRs
HasCachedPRs(refreshPRs, cachedPRs) == ~refreshPRs /\ Len(cachedPRs) > 0

\* "Decide what to fetch"
Branch(hasCachedPRs, metadata, limit) ==
    IF hasCachedPRs /\ metadata.MaxLimit >= limit THEN "hit"
    ELSE IF hasCachedPRs /\ metadata.MaxLimit < limit THEN "incremental"
    ELSE "fresh"

DeltaNeeded(limit, metadata) == limit - metadata.MaxLimit

\* cachedPRs[:limit].  Within len it is the prefix.  Beyond len, Go panics
\* when limit exceeds the capacity json.Unmarshal left in the slice, and
\* otherwise exposes zero PullRequest values of the backing array.
SliceTo(cachedPRs, limit) ==
    IF limit <= Len(cachedPRs) THEN { SubSeq(cachedPRs, 1, limit) }
    ELSE { <<"panic">>, cachedPRs \o [i \in 1..(limit - Len(cachedPRs)) |-> 0] }

NewMetadata(prs, cursor) == [MaxLimit |-> Len(prs), Cursor |-> cursor]

\* the two prCache.Set calls of either fetch branch
SetCalls(prs, cursor) ==
    << [key |-> prsKey, value |-> prs],
       [key |-> metadataKey, value |-> NewMetadata(prs, cursor)] >>

StoreBoth(c, prs, cursor, okPRs, okMeta) ==
    Set(Set(c, prsKey, prs, okPRs), metadataKey, NewMetadata(prs, cursor), okMeta)

\* slip: the fresh branch returns the error before caching what it got
AfterFreshFailsOnError(r, prs, cursor, err) ==
    IF err # NoErr
    THEN [r EXCEPT !.pc = "failed", !.fetchErr = err, !.cursor = cursor]
    ELSE IF Len(prs) > 0
    THEN [r EXCEPT !.pc = "done", !.newPRs = prs, !.prs = prs, !.cursor = cursor,
                   !.fetchErr = err, !.matched = prs, !.sets = SetCalls(prs, cursor)]
    ELSE [r EXCEPT !.pc = "done", !.cursor = cursor]

\* incremental branch, after the fetch returned (watch.go:143-170)
AfterIncremental(r, newPRs, newCursor, err) ==
    LET prs == r.cachedPRs \o newPRs
    IN  [r EXCEPT !.pc = "done", !.newPRs = newPRs, !.prs = prs, !.cursor = newCursor,
                  !.fetchErr = err, !.matched = prs,
                  !.sets = IF Len(newPRs) > 0 THEN SetCalls(prs, newCursor) ELSE <<>>]

\* fresh branch, after the fetch returned (watch.go:175-199)
AfterFresh(r, prs, cursor, err) ==
    IF Len(prs) > 0
    THEN [r EXCEPT !.pc = "done", !.newPRs = prs, !.prs = prs, !.cursor = cursor,
                   !.fetchErr = err, !.matched = prs, !.sets = SetCalls(prs, cursor)]
    ELSE IF err # NoErr
    THEN [r EXCEPT !.pc = "failed", !.fetchErr = err, !.cursor = cursor]
    ELSE [r EXCEPT !.pc = "done", !.cursor = cursor]

(***************************************************************************)
(* History of the fetch in progress (not program state):                   *)
(*   calls      the calls of fetchPRBatch made for the current batch, each *)
(*              with its arguments and result;                             *)
(*   nCalls     the number of calls of fetchPRBatch made by this fetch;    *)
(*   delivered  the records the remote source returned in the successful   *)
(*              calls, in call order;                                      *)
(*   startCursor, lastCursor  the cursor the fetch was entered with and    *)
(*              the end cursor of its last successful call;                *)
(*   final      the number of the call after which no other may follow     *)
(*              (0: none yet), and finalKind why: a terminal failure, a    *)
(*              third transient failure in a row ("exhausted"), a short    *)
(*              page, or the page that brings remaining to 0 ("complete"). *)
(***************************************************************************)
NoGhost ==
    [calls |-> <<>>, nCalls |-> 0, delivered |-> <<>>,
     startCursor |-> NoCursor, lastCursor |-> NoCursor,
     final |-> 0, finalKind |-> "none"]

Class(outcome) ==
    IF outcome.kind = "ok" THEN "ok"
    ELSE IF isRetryableError(fetchPRBatchErr(outcome)) THEN "transient"
    ELSE "terminal"

Call(fr, outcome) ==
    [batch |-> fr.batchNum, limit |-> fr.batchSize, after |-> fr.currentCursor,
     kind |-> outcome.kind, class |-> Class(outcome),
     n |-> IF outcome.kind = "ok" THEN Len(Page(fr.batchSize, fr.currentCursor)) ELSE 0]

\* why the call just logged must be the last one of the fetch ("none": it
\* need not be)
FinalKind(calls, remainingBefore) ==
    LET c == calls[Len(calls)]
    IN  IF c.class = "terminal" THEN "terminal"
        ELSE IF c.class = "transient" /\ Len(calls) >= 3 THEN "exhausted"
        ELSE IF c.class = "ok" /\ c.n < c.limit THEN "short"
        ELSE IF c.class = "ok" /\ remainingBefore - c.n <= 0 THEN "complete"
        ELSE "none"

Observe(g, fr, outcome) ==
    LET calls == Append(g.calls, Call(fr, outcome))
    IN  [g EXCEPT
           !.calls = calls,
           !.nCalls = @ + 1,
           !.delivered = IF outcome.kind = "ok"
                         THEN @ \o Page(fr.batchSize, fr.currentCursor) ELSE @,
           !.lastCursor = IF outcome.kind = "ok"
                          THEN EndCursor(fr.batchSize, fr.currentCursor) ELSE @,
           !.final = IF @ = 0 /\ FinalKind(calls, fr.remaining) # "none"
                     THEN g.nCalls + 1 ELSE @,
           !.finalKind = IF g.final = 0 THEN FinalKind(calls, fr.remaining) ELSE @]

(***************************************************************************)
(* JSON.  The cache stores a value as its JSON text.  A value is a tagged  *)
(* tuple; a text is a sequence of characters.  Marshal writes the text,    *)
(* Unmarshal parses it (recursive descent).                                *)
(***************************************************************************)
JNull == <<"null">>
JBool(b) == <<"bool", b>>
JNum(n) == <<"num", n>>
JStr(s) == <<"str", s>>
JArr(a) == <<"arr", a>>
\* members: a sequence of <<name, value>> in field order
JObj(m) == <<"obj", m>>

DigitChars == <<"0", "1", "2", "3", "4", "5", "6", "7", "8", "9">>

IsDigit(c) == \E d \in 1..10 : DigitChars[d] = c

DigitVal(c) == (CHOOSE d \in 1..10 : DigitChars[d] = c) - 1

RECURSIVE Digits(_)
Digits(n) == IF n < 10 THEN <<DigitChars[n + 1]>>
             ELSE Digits(n \div 10) \o <<DigitChars[(n % 10) + 1]>>

RECURSIVE EscapeString(_)
\* a quote and a backslash are written with a backslash before them
EscapeString(s) ==
    IF s = <<>> THEN <<>>
    ELSE (IF s[1] \in {"\"", "\\"} THEN <<"\\", s[1]>> ELSE <<s[1]>>)
         \o EscapeString(Tail(s))

Quoted(s) == <<"\"">> \o EscapeString(s) \o <<"\"">>

RECURSIVE Marshal(_), MarshalElems(_), MarshalMembers(_)
Marshal(v) ==
    CASE v[1] = "null" -> <<"n", "u", "l", "l">>
      [] v[1] = "bool" -> IF v[2] THEN <<"t", "r", "u", "e">>
                          ELSE <<"f", "a", "l", "s", "e">>
      [] v[1] = "num" -> Digits(v[2])
      [] v[1] = "str" -> Quoted(v[2])
      [] v[1] = "arr" -> <<"[">> \o MarshalElems(v[2]) \o <<"]">>
      [] v[1] = "obj" -> <<"{">> \o MarshalMembers(v[2]) \o <<"}">>

MarshalElems(a) ==
    IF a = <<>> THEN <<>>
    ELSE Marshal(a[1]) \o (IF Len(a) > 1 THEN <<",">> ELSE <<>>) \o MarshalElems(Tail(a))

MarshalMembers(m) ==
    IF m = <<>> THEN <<>>
    ELSE Quoted(m[1][1]) \o <<":">> \o Marshal(m[1][2])
         \o (IF Len(m) > 1 THEN <<",">> ELSE <<>>) \o MarshalMembers(Tail(m))

HasPrefix(s, prefix) ==
    Len(s) >= Len(prefix) /\ SubSeq(s, 1, Len(prefix)) = prefix

Drop(s, n) == SubSeq(s, n + 1, Len(s))

ParseFail == [ok |-> FALSE, v |-> JNull, rest |-> <<>>]

Parsed(v, rest) == [ok |-> TRUE, v |-> v, rest |-> rest]

RECURSIVE ParseString(_, _)
\* the characters after an opening quote, up to the closing quote
ParseString(s, acc) ==
    IF s = <<>> THEN ParseFail
    ELSE IF s[1] = "\"" THEN Parsed(acc, Tail(s))
    ELSE IF s[1] = "\\"
    THEN IF Len(s) >= 2 /\ s[2] \in {"\"", "\\"}
         THEN ParseString(Drop(s, 2), Append(acc, s[2]))
         ELSE ParseFail
    ELSE ParseString(Tail(s), Append(acc, s[1]))

RECURSIVE ParseDigits(_, _)
ParseDigits(s, n) ==
    IF s # <<>> /\ IsDigit(s[1]) THEN ParseDigits(Tail(s), 10 * n + DigitVal(s[1]))
    ELSE Parsed(JNum(n), s)

RECURSIVE ParseValue(_), ParseElems(_, _), ParseMembers(_, _)
ParseValue(s) ==
    IF s = <<>> THEN ParseFail
    ELSE IF HasPrefix(s, <<"n", "u", "l", "l">>) THEN Parsed(JNull, Drop(s, 4))
    ELSE IF HasPrefix(s, <<"t", "r", "u", "e">>) THEN Parsed(JBool(TRUE), Drop(s, 4))
    ELSE IF HasPrefix(s, <<"f", "a", "l", "s", "e">>) THEN Parsed(JBool(FALSE), Drop(s, 5))
    ELSE IF IsDigit(s[1]) THEN ParseDigits(s, 0)
    ELSE IF s[1] = "\""
    THEN LET r == ParseString(Tail(s), <<>>)
         IN  IF r.ok THEN Parsed(JStr(r.v), r.rest) ELSE ParseFail
    ELSE IF s[1] = "["
    THEN IF HasPrefix(Tail(s), <<"]">>) THEN Parsed(JArr(<<>>), Drop(s, 2))
         ELSE ParseElems(Tail(s), <<>>)
    ELSE IF s[1] = "{"
    THEN IF HasPrefix(Tail(s), <<"}">>) THEN Parsed(JObj(<<>>), Drop(s, 2))
         ELSE ParseMembers(Tail(s), <<>>)
    ELSE ParseFail

ParseElems(s, acc) ==
    LET r == ParseValue(s)
    IN  IF ~r.ok THEN ParseFail
        ELSE IF HasPrefix(r.rest, <<",">>) THEN ParseElems(Tail(r.rest), Append(acc, r.v))
        ELSE IF HasPrefix(r.rest, <<"]">>) THEN Parsed(JArr(Append(acc, r.v)), Tail(r.rest))
        ELSE ParseFail

ParseMembers(s, acc) ==
    IF ~HasPrefix(s, <<"\"">>) THEN ParseFail
    ELSE LET name == ParseString(Tail(s), <<>>)
         IN  IF ~name.ok \/ ~HasPrefix(name.rest, <<":">>) THEN ParseFail
             ELSE LET r == ParseValue(Tail(name.rest))
                      m == Append(acc, <<name.v, r.v>>)
                  IN  IF ~r.ok THEN ParseFail
                      ELSE IF HasPrefix(r.rest, <<",">>) THEN ParseMembers(Tail(r.rest), m)
                      ELSE IF HasPrefix(r.rest, <<"}">>) THEN Parsed(JObj(m), Tail(r.rest))
                      ELSE ParseFail

\* the zero value a destination has before Get fills it
Zero == JNull

\* json.Unmarshal(data, &out) into a zero destination: the value and the error
Unmarshal(data) ==
    LET r == ParseValue(data)
    IN  IF r.ok /\ r.rest = <<>> THEN [v |-> r.v, err |-> NoErr]
        ELSE [v |-> Zero, err |-> <<"failed to unmarshal cache entry">>]

(***************************************************************************)
(* internal/cache: a TTL cache, one stored entry per key.  An entry is the *)
(* JSON text of the value and the time of the Set that wrote it.  Time is  *)
(* counted in ticks.                                                       *)
(***************************************************************************)
NoEntry == [present |-> FALSE, data |-> <<>>, writtenAt |-> 0]

EmptyStore == [k \in Keys |-> NoEntry]

\* Set, first half: the value is serialized together with the current time
NewEntry(value, now) == [present |-> TRUE, data |-> Marshal(value), writtenAt |-> now]

\* slip: an entry already stored is kept
PersistKeepsFirst(store, key, entry) ==
    IF store[key].present THEN store ELSE [store EXCEPT ![key] = entry]

\* slip: the text is written in place over the old one and another write
\* comes in between, so only the first half of the new text lands
PersistTorn(store, key, entry) ==
    IF store[key].present
    THEN [store EXCEPT ![key] =
            [entry EXCEPT !.data = SubSeq(entry.data, 1, Len(entry.data) \div 2)
                                   \o Drop(store[key].data, Len(entry.data) \div 2)]]
    ELSE [store EXCEPT ![key] = entry]

\* Set, second half: the entry replaces whatever is stored under the key
Persist(store, key, entry) == [store EXCEPT ![key] = entry]

\* The data model calls an entry live iff now - writtenAt < ttl; Get's
\* contract treats it as absent when its age exceeds the TTL.  At an age of
\* exactly ttl the two disagree: atBoundary is the answer given there.
IsExpired(entry, now, ttl, atBoundary) ==
    \/ now - entry.writtenAt > ttl
    \/ now - entry.writtenAt = ttl /\ atBoundary

\* slip: an expired entry is reported absent but stays in the storage
CacheGetKeepsExpired(store, key, now, ttl, atBoundary) ==
    IF ~store[key].present \/ IsExpired(store[key], now, ttl, atBoundary)
    THEN [out |-> Zero, err |-> NoErr, store |-> store]
    ELSE [out |-> Unmarshal(store[key].data).v, err |-> Unmarshal(store[key].data).err,
          store |-> store]

\* Get(key, &out) with out at its zero value: what out holds afterwards, the
\* error returned, and the storage afterwards
CacheGet(store, key, now, ttl, atBoundary) ==
    IF ~store[key].present
    THEN [out |-> Zero, err |-> NoErr, store |-> store]
    ELSE IF IsExpired(store[key], now, ttl, atBoundary)
    THEN [out |-> Zero, err |-> NoErr, store |-> [store EXCEPT ![key] = NoEntry]]
    ELSE [out |-> Unmarshal(store[key].data).v, err |-> Unmarshal(store[key].data).err,
          store |-> store]

\* slip: the error of removing a file that does not exist is returned
CacheDeleteMissingFails(store, key) ==
    IF store[key].present
    THEN [err |-> NoErr, store |-> [store EXCEPT ![key] = NoEntry]]
    ELSE [err |-> <<"remove: no such file or directory">>, store |-> store]

CacheDelete(store, key) == [err |-> NoErr, store |-> [store EXCEPT ![key] = NoEntry]]

CacheClear(store) == [err |-> NoErr, store |-> [k \in DOMAIN store |-> NoEntry]]

\* the goroutines that call Set, one Set each
Writers == 1..NumWriters

\* values of every JSON kind, nested, with characters that need escaping
SampleValues ==
    << JStr(<<"a", "\"", "\\", "b">>),
       JObj(<< << <<"MaxLimit">>, JNum(1207) >>,
               << <<"C", "\"">>, JArr(<<JNull, JBool(TRUE), JObj(<<>>), JStr(<<>>)>>) >> >>),
       JArr(<<JNum(0), JBool(FALSE), JArr(<<>>)>>) >>

\* the value goroutine w hands to Set
SetValue(w) == SampleValues[((w - 1) % Len(SampleValues)) + 1]

\* the TTLs caches are constructed with, in ticks
TTLs == {1, 2}

NoValue == <<"none">>

IdleWriter == [pc |-> "idle", key |-> prsKey, entry |-> NoEntry]

\* the last operation that touched the storage (history, not program state):
\* the operation and its key; whether it found an entry under the key (for
\* Clear: under any key), the age of that entry and the value last written
\* under the key; what the operation returned
NoLast ==
    [op |-> "none", key |-> prsKey, found |-> FALSE, age |-> 0, was |-> NoValue,
     out |-> Zero, err |-> NoErr]

\* kv.given: for every key, the value of the last Set that completed while
\* its entry is stored; kv.raced: a Set completed while another Set of the
\* same key was between its two halves
NoCache ==
    [ttl |-> 1, now |-> 0, store |-> EmptyStore,
     given |-> [k \in Keys |-> NoValue],
     g |-> [w \in Writers |-> IdleWriter], raced |-> FALSE, last |-> NoLast]

\* the default TTL, in ticks
DefaultTTL == 2

\* slip: a zero TTL is kept as it is
CacheNewKeepsZero(ttl, namespace) == [ttl |-> ttl, namespace |-> namespace]

\* New(ttl, namespace): a zero TTL falls back to DefaultTTL
CacheNew(ttl, namespace) ==
    [ttl |-> IF ttl = 0 THEN DefaultTTL ELSE ttl, namespace |-> namespace]

\* slip: Clear stops after the first entry it removed
CacheClearStopsEarly(store) ==
    IF \E k \in DOMAIN store : store[k].present
    THEN [err |-> NoErr,
          store |-> [store EXCEPT ![CHOOSE k \in DOMAIN store : store[k].present] = NoEntry]]
    ELSE [err |-> NoErr, store |-> store]

\* Clear over the entries of a namespace, whichever instance wrote them
CacheClearAll(store) == CacheClear(store)

RECURSIVE TotalSize(_, _)
TotalSize(store, keys) ==
    IF keys = {} THEN 0
    ELSE LET k == CHOOSE x \in keys : TRUE
         IN  Len(store[k].data) + TotalSize(store, keys \ {k})

\* slip: Info sweeps the expired entries it comes across
CacheInfoSweeps(store, namespace, now, ttl, countExpired) ==
    LET kept == [k \in DOMAIN store |->
                    IF store[k].present /\ now - store[k].writtenAt > ttl
                    THEN NoEntry ELSE store[k]]
    IN  [info |-> [Directory |-> namespace,
                   EntryCount |-> Cardinality({ k \in DOMAIN kept : kept[k].present }),
                   TotalSize |-> TotalSize(kept, DOMAIN kept)],
         err |-> NoErr, store |-> kept]

\* Info(): the directory, the number of entries and their size.  Whether an
\* expired entry not yet removed is counted is left open (countExpired).
CacheInfo(store, namespace, now, ttl, countExpired) ==
    LET counted == { k \in DOMAIN store :
                       /\ store[k].present
                       /\ countExpired \/ now - store[k].writtenAt <= ttl }
    IN  [info |-> [Directory |-> namespace,
                   EntryCount |-> Cardinality(counted),
                   TotalSize |-> TotalSize(store, counted)],
         err |-> NoErr, store |-> store]

\* the caches of one namespace: the PR cache of runWatch (6h, one tick) and
\* a cache constructed with a zero TTL
Instances ==
    << CacheNew(1, "nixpkgs-pr-watch"), CacheNew(0, "nixpkgs-pr-watch") >>

\* the TTLs the instances were asked for
AskedTTL == <<1, 0>>

NoInfo == [Directory |-> "", EntryCount |-> 0, TotalSize |-> 0]

\* the last operation made on the namespace (history): as NoLast, with the
\* instance it was made through, the result of Info, and whether the
\* operation found an entry another instance had written
NoOp ==
    [op |-> "none", inst |-> 1, key |-> prsKey, found |-> FALSE, age |-> 0,
     was |-> NoValue, out |-> Zero, err |-> NoErr, info |-> NoInfo, foreign |-> FALSE,
     expired |-> FALSE]

\* the directory of the namespace, the clock, and for every key the value
\* and the instance of the last Set while its entry is stored
NoNamespace ==
    [now |-> 0, store |-> EmptyStore, given |-> [k \in Keys |-> NoValue],
     by |-> [k \in Keys |-> 0], last |-> NoOp]

(***************************************************************************)
(* internal/pr matcher.  A string is a sequence of characters.             *)
(***************************************************************************)
LowerLetters ==
    <<"a", "b", "c", "d", "e", "f", "g", "h", "i", "j", "k", "l", "m",
      "n", "o", "p", "q", "r", "s", "t", "u", "v", "w", "x", "y", "z">>

UpperLetters ==
    <<"A", "B", "C", "D", "E", "F", "G", "H", "I", "J", "K", "L", "M",
      "N", "O", "P", "Q", "R", "S", "T", "U", "V", "W", "X", "Y", "Z">>

IsLower(c) == \E i \in 1..26 : LowerLetters[i] = c

IsUpper(c) == \E i \in 1..26 : UpperLetters[i] = c

\* strings.ToLower
ToLower(s) ==
    [i \in 1..Len(s) |->
        IF IsUpper(s[i]) THEN LowerLetters[CHOOSE k \in 1..26 : UpperLetters[k] = s[i]]
        ELSE s[i]]

\* whether sub occurs in s at position i
OccursAt(s, sub, i) ==
    i >= 1 /\ i + Len(sub) - 1 <= Len(s) /\ SubSeq(s, i, i + Len(sub) - 1) = sub

\* strings.Contains on strings of characters
HasSubstring(s, sub) == \E i \in 1..(Len(s) + 1) : OccursAt(s, sub, i)

RECURSIVE JoinPath(_)
\* the segments of a path, joined by "/"
JoinPath(segs) ==
    IF Len(segs) = 0 THEN <<>>
    ELSE IF Len(segs) = 1 THEN segs[1]
    ELSE segs[1] \o <<"/">> \o JoinPath(Tail(segs))

\* the characters of s from position i up to the next "/" or the end
RECURSIVE SegmentAt(_, _)
SegmentAt(s, i) ==
    IF i > Len(s) \/ s[i] = "/" THEN <<>> ELSE <<s[i]>> \o SegmentAt(s, i + 1)

\* slip: the group is put around the shard, `pkgs/by-name/([^/]+)/[^/]+/`
ByNameAtCapturesShard(path, i) ==
    LET lit == <<"p", "k", "g", "s", "/", "b", "y", "-", "n", "a", "m", "e", "/">>
        shard == SegmentAt(path, i + Len(lit))
        j == i + Len(lit) + Len(shard) + 1
        name == SegmentAt(path, j)
    IN  IF /\ OccursAt(path, lit, i)
           /\ shard # <<>> /\ OccursAt(path, <<"/">>, j - 1)
           /\ name # <<>> /\ OccursAt(path, <<"/">>, j + Len(name))
        THEN shard ELSE <<>>

\* the capture of `pkgs/by-name/[^/]+/([^/]+)/` matched at position i, or ""
ByNameAt(path, i) ==
    LET lit == <<"p", "k", "g", "s", "/", "b", "y", "-", "n", "a", "m", "e", "/">>
        shard == SegmentAt(path, i + Len(lit))
        j == i + Len(lit) + Len(shard) + 1
        name == SegmentAt(path, j)
    IN  IF /\ OccursAt(path, lit, i)
           /\ shard # <<>> /\ OccursAt(path, <<"/">>, j - 1)
           /\ name # <<>> /\ OccursAt(path, <<"/">>, j + Len(name))
        THEN name ELSE <<>>

\* FindStringSubmatch of `pkgs/by-name/[^/]+/([^/]+)/`: the leftmost match
ByNamePattern(path) ==
    LET hits == { i \in 1..Len(path) : ByNameAt(path, i) # <<>> }
    IN  IF hits = {} THEN <<>>
        ELSE ByNameAt(path, CHOOSE i \in hits : \A k \in hits : i <= k)

\* FindStringSubmatch of `pkgs/.*/([^/]+)/<file>$`: the path ends with
\* "/" name "/" file, and "pkgs/" occurs before the "/" in front of name
NestedPattern(path, file) ==
    LET tail == <<"/">> \o file
        e == Len(path) - Len(tail)
        starts == { q \in 1..e : path[q] = "/" /\ SegmentAt(path, q + 1) = SubSeq(path, q + 1, e) }
    IN  IF /\ e >= 1 /\ OccursAt(path, tail, e + 1)
           /\ \E q \in starts : /\ q + 1 <= e
                                /\ \E i \in 1..(q - 5) : OccursAt(path, <<"p", "k", "g", "s", "/">>, i)
        THEN SubSeq(path, (CHOOSE q \in starts : q + 1 <= e) + 1, e)
        ELSE <<>>

\* extractPackageName: the first pattern that matches gives the name
extractPackageName(path) ==
    IF ByNamePattern(path) # <<>> THEN ByNamePattern(path)
    ELSE IF NestedPattern(path, <<"d", "e", "f", "a", "u", "l", "t", ".", "n", "i", "x">>) # <<>> THEN NestedPattern(path, <<"d", "e", "f", "a", "u", "l", "t", ".", "n", "i", "x">>)
    ELSE NestedPattern(path, <<"p", "a", "c", "k", "a", "g", "e", ".", "n", "i", "x">>)

\* modulePattern `^(nixos|home-manager)/modules/`
IsModulePath(path) ==
    \/ OccursAt(path, <<"n", "i", "x", "o", "s", "/", "m", "o", "d", "u", "l", "e", "s", "/">>, 1)
    \/ OccursAt(path, <<"h", "o", "m", "e", "-", "m", "a", "n", "a", "g", "e", "r", "/", "m", "o", "d", "u", "l", "e", "s", "/">>, 1)

RECURSIVE LastSegmentFrom(_, _)
LastSegmentFrom(s, i) ==
    IF i = 0 \/ s[i] = "/" THEN <<>> ELSE LastSegmentFrom(s, i - 1) \o <<s[i]>>

\* extractServiceName: the last element of strings.Split(modulePath, "/")
extractServiceName(modulePath) == LastSegmentFrom(modulePath, Len(modulePath))

\* Dependencies.HasPackage: the names compared in lower case
HasPackage(d, name) ==
    \E i \in 1..Len(d.Packages) : ToLower(d.Packages[i]) = ToLower(name)

HasModulePath(d, path) == \E i \in 1..Len(d.Modules) : d.Modules[i] = path

\* slip: the hyphen is left out of the characters of a word
IsSeparatorSplitsHyphen(c) == ~(IsLower(c) \/ IsDigit(c) \/ c = "_")

\* the separators of isExactWordMatch's strings.FieldsFunc
IsSeparator(c) == ~(IsLower(c) \/ IsDigit(c) \/ c = "-" \/ c = "_")

RECURSIVE FieldsFrom(_, _, _)
\* strings.FieldsFunc(text, IsSeparator): the maximal runs without separator
FieldsFrom(text, i, word) ==
    IF i > Len(text) THEN (IF word = <<>> THEN <<>> ELSE <<word>>)
    ELSE IF IsSeparator(text[i])
    THEN (IF word = <<>> THEN <<>> ELSE <<word>>) \o FieldsFrom(text, i + 1, <<>>)
    ELSE FieldsFrom(text, i + 1, Append(word, text[i]))

FieldsFunc(text) == FieldsFrom(text, 1, <<>>)

isExactWordMatch(text, pkg) ==
    \E i \in 1..Len(FieldsFunc(text)) : FieldsFunc(text)[i] = pkg

\* a word character of the regexp syntax: [0-9A-Za-z_]
IsWordChar(c) == IsLower(c) \/ IsUpper(c) \/ IsDigit(c) \/ c = "_"

\* \b between positions k and k + 1 of text
WordBoundary(text, k) ==
    (k >= 1 /\ IsWordChar(text[k])) # (k + 1 <= Len(text) /\ IsWordChar(text[k + 1]))

\* MatchString of `(?i)\b` + regexp.QuoteMeta(pkg) + `\b`
WordPattern(text, pkg) ==
    \E i \in 1..(Len(text) + 1) :
        /\ OccursAt(ToLower(text), ToLower(pkg), i)
        /\ WordBoundary(text, i - 1)
        /\ WordBoundary(text, i + Len(pkg) - 1)

\* slip: a name followed by a hyphen is not suppressed
matchesWithoutSuppression(text, pkg) == WordPattern(text, pkg)

\* matchesWithWordBoundary; the regexCache only saves compiling the pattern
matchesWithWordBoundary(text, pkg) ==
    IF ~HasSubstring(pkg, <<"-">>) /\ HasSubstring(ToLower(text), ToLower(pkg) \o <<"-">>)
    THEN FALSE
    ELSE WordPattern(text, pkg)

Match(type, dependency, filePath, confidence) ==
    [Type |-> type, Dependency |-> dependency, FilePath |-> filePath,
     Confidence |-> confidence]

NewMatchResult(pr) == [PR |-> pr, Score |-> 0, Matches |-> <<>>, TotalMatches |-> 0]

ScoreOf(confidence) ==
    CASE confidence = "high" -> 100
      [] confidence = "medium" -> 50
      [] confidence = "low" -> 25
      [] OTHER -> 0

\* slip: the score is not capped
addMatchNoCap(mr, match) ==
    [mr EXCEPT !.Matches = Append(@, match),
               !.TotalMatches = Len(mr.Matches) + 1,
               !.Score = @ + ScoreOf(match.Confidence)]

\* MatchResult.addMatch
addMatch(mr, match) ==
    LET score == mr.Score + ScoreOf(match.Confidence)
    IN  [mr EXCEPT !.Matches = Append(@, match),
                   !.TotalMatches = Len(mr.Matches) + 1,
                   !.Score = IF score > 100 THEN 100 ELSE score]

\* MatchResult.hasMatch
hasMatch(mr, dependency) ==
    \E i \in 1..Len(mr.Matches) : mr.Matches[i].Dependency = dependency

\* slip: no break, every module whose service name occurs is recorded
RECURSIVE FuzzyModuleFrom(_, _, _, _)
FuzzyModuleFrom(d, mr, path, i) ==
    IF i > Len(d.Modules) THEN mr
    ELSE LET name == extractServiceName(d.Modules[i])
         IN  FuzzyModuleFrom(d,
                 IF name # <<>> /\ HasSubstring(path, name) /\ ~hasMatch(mr, d.Modules[i])
                 THEN addMatch(mr, Match("module", name, path, "high")) ELSE mr,
                 path, i + 1)

FuzzyModuleNoBreak(d, mr, path) == FuzzyModuleFrom(d, mr, path, 1)

\* the fuzzy module match of one file: the first module whose service name
\* occurs in the path decides
FuzzyModule(d, mr, path) ==
    LET hits == { i \in 1..Len(d.Modules) :
                    /\ extractServiceName(d.Modules[i]) # <<>>
                    /\ HasSubstring(path, extractServiceName(d.Modules[i])) }
        first == CHOOSE i \in hits : \A k \in hits : i <= k
    IN  IF hits = {} \/ hasMatch(mr, d.Modules[first]) THEN mr
        ELSE addMatch(mr, Match("module", extractServiceName(d.Modules[first]), path, "high"))

\* phase 1 of matchPR for one changed file
MatchFile(d, mr, path) ==
    LET pkgName == extractPackageName(path)
    IN  IF pkgName # <<>> /\ HasPackage(d, pkgName)
        THEN addMatch(mr, Match("package", pkgName, path, "high"))
        ELSE IF ~IsModulePath(path) THEN mr
        ELSE IF HasModulePath(d, path)
        THEN addMatch(mr, Match("module", path, path, "high"))
        ELSE FuzzyModule(d, mr, path)

RECURSIVE MatchFiles(_, _, _)
MatchFiles(d, mr, files) ==
    IF files = <<>> THEN mr
    ELSE MatchFiles(d, MatchFile(d, mr, files[1]), Tail(files))

\* `matched` of phase 2 for one package
TitleMatched(title, name) ==
    IF Len(name) < 3 THEN isExactWordMatch(ToLower(title), ToLower(name))
    ELSE matchesWithWordBoundary(ToLower(title), ToLower(name))

\* phase 2 of matchPR for one package
MatchTitle(mr, title, name) ==
    IF TitleMatched(title, name) /\ ~hasMatch(mr, name)
    THEN addMatch(mr, Match("title", name, <<>>, "medium"))
    ELSE mr

RECURSIVE MatchTitles(_, _, _)
MatchTitles(mr, title, packages) ==
    IF packages = <<>> THEN mr
    ELSE MatchTitles(MatchTitle(mr, title, packages[1]), title, Tail(packages))

matchPR(d, pr) ==
    MatchTitles(MatchFiles(d, NewMatchResult(pr), pr.Files), pr.Title, d.Packages)

\* slip: the test on len(result.Matches) is missing
MatchAllStepKeepsAll(d, results, pr) == Append(results, matchPR(d, pr))

\* the body of MatchAll's loop for one record
MatchAllStep(d, results, pr) ==
    IF Len(matchPR(d, pr).Matches) > 0 THEN Append(results, matchPR(d, pr)) ELSE results

RECURSIVE MatchAll(_, _)
MatchAll(d, prs) ==
    IF prs = <<>> THEN <<>>
    ELSE MatchAllStep(d, MatchAll(d, SubSeq(prs, 1, Len(prs) - 1)), prs[Len(prs)])

(***************************************************************************)
(* Dependencies and records the matcher is run on: those of the tests      *)
(* (TestMatcher_matchPR, TestMatcher_MatchAll), a record with two changed  *)
(* files of one package, and a module known by its service directory.      *)
(***************************************************************************)
Git == <<"g", "i", "t">>
Openssh == <<"o", "p", "e", "n", "s", "s", "h">>
Nautilus == <<"n", "a", "u", "t", "i", "l", "u", "s">>

PathGit ==
    JoinPath(<<<<"p", "k", "g", "s">>,
              <<"b", "y", "-", "n", "a", "m", "e">>,
              <<"g", "i">>,
              <<"g", "i", "t">>,
              <<"p", "a", "c", "k", "a", "g", "e", ".", "n", "i", "x">>>>)
PathGitPatch ==
    JoinPath(<<<<"p", "k", "g", "s">>,
              <<"b", "y", "-", "n", "a", "m", "e">>,
              <<"g", "i">>,
              <<"g", "i", "t">>,
              <<"f", "i", "x", ".", "p", "a", "t", "c", "h">>>>)
PathRandom ==
    JoinPath(<<<<"p", "k", "g", "s">>,
              <<"b", "y", "-", "n", "a", "m", "e">>,
              <<"r", "a">>,
              <<"r", "a", "n", "d", "o", "m">>,
              <<"p", "a", "c", "k", "a", "g", "e", ".", "n", "i", "x">>>>)
PathOpenssh ==
    JoinPath(<<<<"p", "k", "g", "s">>,
              <<"t", "o", "o", "l", "s">>,
              <<"n", "e", "t", "w", "o", "r", "k", "i", "n", "g">>,
              <<"o", "p", "e", "n", "s", "s", "h">>,
              <<"d", "e", "f", "a", "u", "l", "t", ".", "n", "i", "x">>>>)
PathSshd ==
    JoinPath(<<<<"n", "i", "x", "o", "s">>,
              <<"m", "o", "d", "u", "l", "e", "s">>,
              <<"s", "e", "r", "v", "i", "c", "e", "s">>,
              <<"n", "e", "t", "w", "o", "r", "k", "i", "n", "g">>,
              <<"s", "s", "h">>,
              <<"s", "s", "h", "d", ".", "n", "i", "x">>>>)
PathNginx ==
    JoinPath(<<<<"n", "i", "x", "o", "s">>,
              <<"m", "o", "d", "u", "l", "e", "s">>,
              <<"s", "e", "r", "v", "i", "c", "e", "s">>,
              <<"w", "e", "b", "-", "s", "e", "r", "v", "e", "r", "s">>,
              <<"n", "g", "i", "n", "x">>,
              <<"d", "e", "f", "a", "u", "l", "t", ".", "n", "i", "x">>>>)
ModuleNginx ==
    JoinPath(<<<<"n", "i", "x", "o", "s">>,
              <<"m", "o", "d", "u", "l", "e", "s">>,
              <<"s", "e", "r", "v", "i", "c", "e", "s">>,
              <<"n", "g", "i", "n", "x">>>>)

Dependencies(packages, modules) == [Packages |-> packages, Modules |-> modules]

DepSets ==
    { Dependencies(<<Git>>, <<>>),
      Dependencies(<<Git, Openssh, Nautilus>>, <<PathSshd>>),
      Dependencies(<<Openssh>>, <<ModuleNginx>>) }

PullRequest(number, title, files) == [Number |-> number, Title |-> title, Files |-> files]

SamplePRs ==
    { PullRequest(1, <<"g", "i", "t", ":", " ", "u", "p", "d", "a", "t", "e">>, <<PathGit>>),
      PullRequest(2, <<"r", "a", "n", "d", "o", "m", ":", " ", "u", "p", "d", "a", "t", "e">>, <<PathRandom>>),
      PullRequest(3, <<"o", "p", "e", "n", "s", "s", "h", ":", " ", "s", "e", "c", "u", "r", "i", "t", "y", " ", "f", "i", "x">>, <<PathOpenssh>>),
      PullRequest(4, <<"g", "i", "t", ":", " ", "f", "i", "x", " ", "b", "u", "i", "l", "d">>, <<PathGit, PathGitPatch>>),
      PullRequest(5, <<"s", "s", "h", "d", ":", " ", "i", "m", "p", "r", "o", "v", "e", " ", "s", "e", "c", "u", "r", "i", "t", "y">>, <<PathSshd>>),
      PullRequest(6, <<"n", "g", "i", "n", "x", ":", " ", "r", "e", "l", "o", "a", "d">>, <<PathNginx>>),
      PullRequest(7, <<"G", "N", "O", "M", "E", " ", "u", "p", "d", "a", "t", "e", "s">>, <<PathRandom, PathGit>>) }

\* matches appended one by one, as TestMatchResult_addMatch does
SampleMatches ==
    { Match("package", Git, PathGit, "high"),
      Match("title", Openssh, <<>>, "medium"),
      Match("heuristic", <<"c", "u", "r", "l">>, <<>>, "low") }

\* mt.pc: "idle" (a MatchResult mt.mr is being filled by addMatch),
\* "matching" (inside MatchAll, mt.next the index of the next record),
\* "done" (MatchAll returned mt.results).  mt.scored is the result of
\* matchPR for every record seen; mt.prevScore the score before the last
\* addMatch.
NoMatcher ==
    [pc |-> "idle", deps |-> Dependencies(<<>>, <<>>), prs |-> <<>>, next |-> 1,
     results |-> <<>>, scored |-> <<>>,
     mr |-> NewMatchResult(PullRequest(0, <<>>, <<>>)), prevScore |-> 0]

(***************************************************************************)
(* Actions of Spec.                                                        *)
(***************************************************************************)
\* a new invocation of runWatch, up to the call of the fetcher (or, when the
\* cache has enough PRs, to the matcher)
RunWatch(limit, refreshPRs) ==
    /\ run.pc \in {"idle", "done", "failed", "panic"}
    /\ runs < MaxRuns
    /\ runs' = runs + 1
    /\ LET metadata == IF refreshPRs THEN ZeroMetadata
                       ELSE Get(cache, metadataKey, ZeroMetadata)
           \* the list is only asked for when the metadata was found
           cachedPRs == IF refreshPRs \/ ~cache[metadataKey].present THEN <<>>
                        ELSE Get(cache, prsKey, <<>>)
           has == HasCachedPRs(refreshPRs, cachedPRs)
           branch == Branch(has, metadata, limit)
           r == [NoRun EXCEPT !.limit = limit, !.refreshPRs = refreshPRs,
                              !.branch = branch, !.metadata = metadata,
                              !.cachedPRs = cachedPRs, !.hasCachedPRs = has,
                              !.loadedMeta = ~refreshPRs /\ cache[metadataKey].present,
                              !.loadedPRs = /\ ~refreshPRs
                                            /\ cache[metadataKey].present
                                            /\ cache[prsKey].present]
       IN  CASE branch = "hit" ->
                  /\ \E sl \in SliceTo(cachedPRs, limit) :
                        run' = IF sl = <<"panic">> THEN [r EXCEPT !.pc = "panic"]
                               ELSE [r EXCEPT !.pc = "done", !.prs = sl, !.matched = sl]
                  /\ f' = NoFrame
                  /\ UNCHANGED rl
             [] branch = "incremental" ->
                  /\ run' = [r EXCEPT !.pc = "fetching"]
                  /\ f' = FetchEnter(DeltaNeeded(limit, metadata), metadata.Cursor)
                  /\ rl' = FetcherRateLimiter
             [] branch = "fresh" ->
                  /\ run' = [r EXCEPT !.pc = "fetching"]
                  /\ f' = FetchEnter(limit, NoCursor)
                  /\ rl' = FetcherRateLimiter
    /\ ghost' = [NoGhost EXCEPT !.startCursor = f'.afterCursor,
                                 !.lastCursor = f'.afterCursor]
    /\ lastWait' = NoWait
    /\ UNCHANGED <<goarch, cache>>
    /\ UNCHANGED <<kv, mt, gs, tui>>

\* head of a loop iteration: rateLimiter.Wait(), batchSize, entry of
\* fetchPRBatchWithRetry
BeginBatch ==
    /\ run.pc = "fetching"
    /\ f.pc = "loop"
    /\ lastWait' = WaitCall(rl, goarch)
    /\ f' = [f EXCEPT !.pc = "attempt", !.batchNum = @ + 1,
                      !.batchSize = BatchSize(f.remaining),
                      !.attempt = 1, !.lastErr = NoErr, !.backoff = 0]
    /\ ghost' = [ghost EXCEPT !.calls = <<>>]
    /\ UNCHANGED <<goarch, rl, cache, run, runs>>
    /\ UNCHANGED <<kv, mt, gs, tui>>

\* one call of fetchPRBatch and everything up to the next one
BatchAttempt(outcome) ==
    /\ run.pc = "fetching"
    /\ f.pc = "attempt"
    /\ f' = AttemptStep(f, outcome)
    /\ rl' = IF outcome.kind = "ok" THEN recordRequest(rl) ELSE rl
    /\ ghost' = Observe(ghost, f, outcome)
    /\ UNCHANGED <<goarch, lastWait, cache, run, runs>>
    /\ UNCHANGED <<kv, mt, gs, tui>>

\* the fetch has returned: merge, cache, go on to match (or fail)
FetchReturn(okPRs, okMeta) ==
    /\ run.pc = "fetching"
    /\ f.pc = "returned"
    /\ LET r == IF run.branch = "incremental"
                THEN AfterIncremental(run, f.retPRs, f.retCursor, f.retErr)
                ELSE AfterFresh(run, f.retPRs, f.retCursor, f.retErr)
       IN  IF r.sets # <<>>
           THEN /\ run' = [r EXCEPT !.setOk = <<okPRs, okMeta>>]
                /\ cache' = StoreBoth(cache, r.prs, r.cursor, okPRs, okMeta)
           ELSE /\ run' = r
                /\ cache' = cache
    /\ UNCHANGED <<goarch, rl, lastWait, f, ghost, runs>>
    /\ UNCHANGED <<kv, mt, gs, tui>>

(***************************************************************************)
(* SpecBase: invocations of runWatch with a --base-branch filter, each one *)
(* a single step.  A record and a cursor carry the filter of the request   *)
(* that returned them; record n of a filter is the n-th open pull request  *)
(* of that base branch.  Both Sets succeed; a fetch returns any number of  *)
(* records up to its limit, with or without an error.                      *)
(***************************************************************************)
\* values of --base-branch; "" is no filter
BaseBranches == {"", "master"}

BaseLimits == {1, 2}

\* the cursor "": the start of whatever list is asked for
StartCursor == [pos |-> 0, baseBranch |-> ""]

BaseRecord(n, baseBranch) == [n |-> n, baseBranch |-> baseBranch]

\* FetchNixpkgsPRsWithCursor(limit, afterCursor, baseBranch) when the remote
\* source delivers `got` records and then fails (err) or not
FetchUnder(limit, afterCursor, baseBranch, got, err) ==
    [prs |-> [i \in 1..got |-> BaseRecord(afterCursor.pos + i, baseBranch)],
     cursor |-> IF got > 0 THEN [pos |-> afterCursor.pos + got, baseBranch |-> baseBranch]
                ELSE IF err THEN afterCursor
                ELSE StartCursor,
     err |-> err]

NoBaseRun ==
    [pc |-> "idle", limit |-> 0, baseBranch |-> "", branch |-> "none",
     cachedPRs |-> <<>>, afterCursor |-> StartCursor, prs |-> <<>>]

\* runWatch from "Load existing cache" to the end of "Decide what to fetch"
WatchWithBase(limit, baseBranch, refreshPRs, got, err) ==
    /\ run.pc \in {"idle", "done", "failed"}
    /\ runs < MaxBaseRuns
    /\ runs' = runs + 1
    /\ LET metadata == IF refreshPRs THEN [MaxLimit |-> 0, Cursor |-> StartCursor]
                       ELSE Get(cache, metadataKey, [MaxLimit |-> 0, Cursor |-> StartCursor])
           cachedPRs == IF refreshPRs \/ ~cache[metadataKey].present THEN <<>>
                        ELSE Get(cache, prsKey, <<>>)
           branch == Branch(HasCachedPRs(refreshPRs, cachedPRs), metadata, limit)
           r == [NoBaseRun EXCEPT !.limit = limit, !.baseBranch = baseBranch,
                                  !.branch = branch, !.cachedPRs = cachedPRs]
       IN  CASE branch = "hit" ->
                  /\ got = 0 /\ ~err
                  /\ run' = [r EXCEPT !.pc = "done", !.prs = SubSeq(cachedPRs, 1, limit)]
                  /\ cache' = cache
             [] branch = "incremental" ->
                  /\ got <= DeltaNeeded(limit, metadata)
                  /\ err => got < DeltaNeeded(limit, metadata)
                  /\ LET fetched == FetchUnder(DeltaNeeded(limit, metadata), metadata.Cursor,
                                               baseBranch, got, err)
                         prs == cachedPRs \o fetched.prs
                     IN  /\ run' = [r EXCEPT !.pc = "done", !.prs = prs,
                                             !.afterCursor = metadata.Cursor]
                         /\ cache' = IF got > 0
                                     THEN StoreBoth(cache, prs, fetched.cursor, TRUE, TRUE)
                                     ELSE cache
             [] branch = "fresh" ->
                  /\ got <= limit
                  /\ err => got < limit
                  /\ LET fetched == FetchUnder(limit, StartCursor, baseBranch, got, err)
                     IN  /\ run' = IF got = 0 /\ err THEN [r EXCEPT !.pc = "failed"]
                                   ELSE [r EXCEPT !.pc = "done", !.prs = fetched.prs]
                         /\ cache' = IF got > 0
                                     THEN StoreBoth(cache, fetched.prs, fetched.cursor,
                                                    TRUE, TRUE)
                                     ELSE cache
    /\ UNCHANGED <<goarch, rl, lastWait, f, ghost>>
    /\ UNCHANGED <<kv, mt, gs, tui>>

InitBase ==
    /\ goarch = "amd64"
    /\ rl = FetcherRateLimiter
    /\ lastWait = NoWait
    /\ cache = EmptyCache
    /\ run = NoBaseRun
    /\ f = NoFrame
    /\ ghost = NoGhost
    /\ runs = 0
    /\ kv = NoCache
    /\ mt = NoMatcher
    /\ gs = NoCallers
    /\ tui = NoModel

NextBase ==
    \E limit \in BaseLimits, baseBranch \in BaseBranches, refreshPRs \in BOOLEAN,
       got \in 0..2, err \in BOOLEAN :
        WatchWithBase(limit, baseBranch, refreshPRs, got, err)

SpecBase == InitBase /\ [][NextBase]_vars

(***************************************************************************)
(* SpecFetch: one call of FetchNixpkgsPRsWithCursor against a remote       *)
(* source that answers as it likes: an error of any kind, or a page of any *)
(* length, empty, short, full or longer than asked for.                    *)
(***************************************************************************)
\* the limits a fetch is called with
FetchLimits == {0, 1, 100, 101, 201}

\* the lengths of the page a call may return when batchSize was asked for
PageLengths(batchSize) == {0, batchSize - 1, batchSize, batchSize + 1} \ {-1}

\* one call of fetchPRBatch that ends with `outcome`, a successful one with
\* a page of n records
FetchAttempt(outcome, n) ==
    /\ run.pc = "fetching"
    /\ f.pc = "attempt"
    /\ f' = IF fetchPRBatchErr(outcome) = NoErr
            THEN OnBatchSuccess(f, [i \in 1..n |-> Len(f.allPRs) + i],
                                IF n = 0 THEN NoCursor ELSE Len(f.allPRs) + n)
            ELSE AttemptStep(f, outcome)
    /\ rl' = IF outcome.kind = "ok" THEN recordRequest(rl) ELSE rl
    /\ ghost' = [ghost EXCEPT !.nCalls = @ + 1]
    /\ UNCHANGED <<goarch, lastWait, cache, run, runs>>
    /\ UNCHANGED <<kv, mt, gs, tui>>

InitFetch ==
    /\ goarch = "amd64"
    /\ rl = FetcherRateLimiter
    /\ lastWait = NoWait
    /\ cache = EmptyCache
    /\ run = [NoRun EXCEPT !.pc = "fetching"]
    /\ f \in { FetchEnter(limit, NoCursor) : limit \in FetchLimits }
    /\ ghost = NoGhost
    /\ runs = 0
    /\ kv = NoCache
    /\ mt = NoMatcher
    /\ gs = NoCallers
    /\ tui = NoModel

NextFetch ==
    \/ BeginBatch
    \/ \E outcome \in Outcomes, n \in PageLengths(f.batchSize) : FetchAttempt(outcome, n)

\* every call started ends and the loop goes on: no step is held back for
\* ever
SpecFetch == InitFetch /\ [][NextFetch]_vars /\ WF_vars(NextFetch)

\* With the limits tried a fetch records at most 3 requests, far from the
\* request counts at which the delay depends on GOARCH: one build is enough.
Init ==
    /\ goarch = "amd64"
    /\ rl = FetcherRateLimiter
    /\ lastWait = NoWait
    /\ cache = EmptyCache
    /\ run = NoRun
    /\ f = NoFrame
    /\ ghost = NoGhost
    /\ runs = 0
    /\ kv = NoCache
    /\ mt = NoMatcher
    /\ gs = NoCallers
    /\ tui = NoModel

Next ==
    \/ \E limit \in Limits, refreshPRs \in BOOLEAN : RunWatch(limit, refreshPRs)
    \/ BeginBatch
    \/ \E outcome \in Outcomes : BatchAttempt(outcome)
    \/ \E okPRs \in BOOLEAN, okMeta \in BOOLEAN : FetchReturn(okPRs, okMeta)

Spec == Init /\ [][Next]_vars

(***************************************************************************)
(* SpecRL: one RateLimiter driven on its own.                              *)
(***************************************************************************)
Wait ==
    /\ lastWait' = WaitCall(rl, goarch)
    /\ UNCHANGED <<goarch, rl, cache, run, f, ghost, runs>>
    /\ UNCHANGED <<kv, mt, gs, tui>>

RecordRequest ==
    /\ rl.requestCount < MaxRequests
    /\ rl' = recordRequest(rl)
    /\ lastWait' = NoWait
    /\ UNCHANGED <<goarch, cache, run, f, ghost, runs>>
    /\ UNCHANGED <<kv, mt, gs, tui>>

ResetLimiter ==
    /\ rl.requestCount > 0
    /\ rl' = Reset(rl)
    /\ lastWait' = NoWait
    /\ UNCHANGED <<goarch, cache, run, f, ghost, runs>>
    /\ UNCHANGED <<kv, mt, gs, tui>>

InitRL ==
    /\ goarch \in GoArchs
    /\ rl \in RLConfigs
    /\ lastWait = NoWait
    /\ cache = EmptyCache
    /\ run = NoRun
    /\ f = NoFrame
    /\ ghost = NoGhost
    /\ runs = 0
    /\ kv = NoCache
    /\ mt = NoMatcher
    /\ gs = NoCallers
    /\ tui = NoModel

NextRL == Wait \/ RecordRequest \/ ResetLimiter

SpecRL == InitRL /\ [][NextRL]_vars

(***************************************************************************)
(* SpecConc: goroutines calling Wait and recordRequest of one RateLimiter  *)
(* at the same time.  requestCount++ is a read and a write; Wait reads     *)
(* requestCount in shouldDelay and again in calculateDelay, and sleeps     *)
(* with the mutex held.                                                    *)
(***************************************************************************)
\* go rl.recordRequest() or go rl.Wait()
Go(c, op) ==
    /\ gs.g[c].pc = "idle"
    /\ gs' = [gs EXCEPT !.g[c] = [@ EXCEPT !.op = op, !.pc = "lock", !.lo = gs.completed],
                         !.called = IF op = "recordRequest" THEN @ + 1 ELSE @]
    /\ UNCHANGED <<tui, pipeVars, kv, mt>>

\* slip: Lock does not wait for the holder
LockWithoutWaiting(c) ==
    /\ gs.g[c].pc = "lock"
    /\ gs' = [gs EXCEPT !.mu = c,
                         !.g[c].pc = IF gs.g[c].op = "recordRequest" THEN "load" ELSE "should"]
    /\ UNCHANGED <<tui, pipeVars, kv, mt>>

\* rl.mu.Lock()
Lock(c) ==
    /\ gs.g[c].pc = "lock"
    /\ gs.mu = 0
    /\ gs' = [gs EXCEPT !.mu = c,
                         !.g[c].pc = IF gs.g[c].op = "recordRequest" THEN "load" ELSE "should"]
    /\ UNCHANGED <<tui, pipeVars, kv, mt>>

\* rl.requestCount++, the read
RecordLoad(c) ==
    /\ gs.g[c].pc = "load"
    /\ gs' = [gs EXCEPT !.g[c].v = rl.requestCount, !.g[c].pc = "store"]
    /\ UNCHANGED <<tui, pipeVars, kv, mt>>

\* rl.requestCount++, the write
RecordStore(c) ==
    /\ gs.g[c].pc = "store"
    /\ rl' = [rl EXCEPT !.requestCount = gs.g[c].v + 1]
    /\ gs' = [gs EXCEPT !.g[c].pc = "unlock"]
    /\ UNCHANGED <<goarch, lastWait, cache, run, f, ghost, runs, kv, mt, tui>>

\* if rl.shouldDelay()
WaitShouldDelay(c) ==
    /\ gs.g[c].pc = "should"
    /\ gs' = [gs EXCEPT !.g[c].v = rl.requestCount,
                         !.g[c].pc = IF shouldDelay(rl) THEN "calc" ELSE "unlock"]
    /\ UNCHANGED <<tui, pipeVars, kv, mt>>

\* delay := rl.calculateDelay(); time.Sleep(delay)
WaitCalculateDelay(c) ==
    /\ gs.g[c].pc = "calc"
    /\ gs' = [gs EXCEPT !.g[c].v = rl.requestCount,
                         !.g[c].delay = calculateDelay(rl, goarch),
                         !.g[c].pc = "unlock"]
    /\ UNCHANGED <<tui, pipeVars, kv, mt>>

\* the deferred rl.mu.Unlock(), and the return
Unlock(c) ==
    /\ gs.g[c].pc = "unlock"
    /\ gs' = [gs EXCEPT !.mu = IF gs.mu = c THEN 0 ELSE @,
                         !.g[c].pc = "done",
                         !.g[c].hi = gs.called,
                         !.completed = IF gs.g[c].op = "recordRequest" THEN @ + 1 ELSE @]
    /\ UNCHANGED <<tui, pipeVars, kv, mt>>

InitConc ==
    /\ goarch = "amd64"
    /\ rl \in { FetcherRateLimiter, NewRateLimiter(Milliseconds(50), Rate(3, 2), Seconds(1)) }
    /\ lastWait = NoWait
    /\ cache = EmptyCache
    /\ run = NoRun
    /\ f = NoFrame
    /\ ghost = NoGhost
    /\ runs = 0
    /\ kv = NoCache
    /\ mt = NoMatcher
    /\ gs = NoCallers
    /\ tui = NoModel

NextConc ==
    \E c \in Callers :
        \/ \E op \in {"recordRequest", "Wait"} : Go(c, op)
        \/ Lock(c)
        \/ RecordLoad(c)
        \/ RecordStore(c)
        \/ WaitShouldDelay(c)
        \/ WaitCalculateDelay(c)
        \/ Unlock(c)

SpecConc == InitConc /\ [][NextConc]_vars

(***************************************************************************)
(* SpecCache: one cache, the clock, goroutines calling Set, and Get,       *)
(* Delete and Clear called meanwhile.                                      *)
(***************************************************************************)
GivenAfter(given, store) == [k \in Keys |-> IF store[k].present THEN given[k] ELSE NoValue]

Last(op, key, out, err) ==
    LET found == IF op = "Clear" THEN kv.store # EmptyStore ELSE kv.store[key].present
    IN  [op |-> op, key |-> key, found |-> found,
         age |-> IF found /\ op # "Clear" THEN kv.now - kv.store[key].writtenAt ELSE 0,
         was |-> kv.given[key], out |-> out, err |-> err]

\* a goroutine enters Set: serialization with the current timestamp
SetBegin(w, key) ==
    /\ kv.g[w].pc = "idle"
    /\ kv' = [kv EXCEPT !.g[w] = [pc |-> "marshalled", key |-> key,
                                  entry |-> NewEntry(SetValue(w), kv.now)]]
    /\ UNCHANGED <<tui, pipeVars, mt, gs>>

\* the goroutine persists its entry and Set returns nil
SetEnd(w) ==
    /\ kv.g[w].pc = "marshalled"
    /\ LET key == kv.g[w].key
       IN  kv' = [kv EXCEPT
                    !.store = Persist(kv.store, key, kv.g[w].entry),
                    !.given[key] = SetValue(w),
                    !.g[w] = [pc |-> "done", key |-> key, entry |-> NoEntry],
                    !.raced = @ \/ \E o \in Writers \ {w} :
                                     kv.g[o].pc = "marshalled" /\ kv.g[o].key = key,
                    !.last = Last("Set", key, Zero, NoErr)]
    /\ UNCHANGED <<tui, pipeVars, mt, gs>>

CacheGetCall(key, atBoundary) ==
    /\ LET r == CacheGet(kv.store, key, kv.now, kv.ttl, atBoundary)
       IN  kv' = [kv EXCEPT !.store = r.store,
                            !.given = GivenAfter(kv.given, r.store),
                            !.last = Last("Get", key, r.out, r.err)]
    /\ UNCHANGED <<tui, pipeVars, mt, gs>>

CacheDeleteCall(key) ==
    /\ LET r == CacheDelete(kv.store, key)
       IN  kv' = [kv EXCEPT !.store = r.store,
                            !.given = GivenAfter(kv.given, r.store),
                            !.last = Last("Delete", key, Zero, r.err)]
    /\ UNCHANGED <<tui, pipeVars, mt, gs>>

CacheClearCall ==
    /\ LET r == CacheClear(kv.store)
       IN  kv' = [kv EXCEPT !.store = r.store,
                            !.given = GivenAfter(kv.given, r.store),
                            !.last = Last("Clear", prsKey, Zero, r.err)]
    /\ UNCHANGED <<tui, pipeVars, mt, gs>>

Tick ==
    /\ kv.now < MaxTime
    /\ kv' = [kv EXCEPT !.now = @ + 1]
    /\ UNCHANGED <<tui, pipeVars, mt, gs>>

InitCache ==
    /\ goarch = "amd64"
    /\ rl = FetcherRateLimiter
    /\ lastWait = NoWait
    /\ cache = EmptyCache
    /\ run = NoRun
    /\ f = NoFrame
    /\ ghost = NoGhost
    /\ runs = 0
    /\ kv \in { [NoCache EXCEPT !.ttl = t] : t \in TTLs }
    /\ mt = NoMatcher
    /\ gs = NoCallers
    /\ tui = NoModel

NextCache ==
    \/ \E w \in Writers, key \in Keys : SetBegin(w, key)
    \/ \E w \in Writers : SetEnd(w)
    \/ \E key \in Keys, atBoundary \in BOOLEAN : CacheGetCall(key, atBoundary)
    \/ \E key \in Keys : CacheDeleteCall(key)
    \/ CacheClearCall
    \/ Tick

SpecCache == InitCache /\ [][NextCache]_vars

(***************************************************************************)
(* Properties of the cache, checked under SpecCache.                       *)
(***************************************************************************)
\* C12: a Get of an entry younger than the TTL returns the value stored and
\* leaves the entry in place; a Get of an entry older than the TTL returns
\* nil, leaves out at its zero value and removes the entry from the storage.
C12_GetExpiresByTTL ==
    (kv.last.op = "Get" /\ kv.last.found)
        => /\ kv.last.age < kv.ttl
                => /\ kv.last.err = NoErr
                   /\ kv.last.out = kv.last.was
                   /\ kv.store[kv.last.key].present
                   /\ kv.given[kv.last.key] = kv.last.was
           /\ kv.last.age > kv.ttl
                => /\ kv.last.err = NoErr
                   /\ kv.last.out = Zero
                   /\ ~kv.store[kv.last.key].present

\* an entry older than the TTL was read and is gone
C12_Witness ==
    /\ kv.last.op = "Get"
    /\ kv.last.found
    /\ kv.last.age > kv.ttl
    /\ kv.last.was \notin {Zero, NoValue}
    /\ kv.last.out = Zero
    /\ ~kv.store[kv.last.key].present

\* C13: a Get of a live entry returns, without error, exactly the value of
\* the last Set completed for that key: what a Set stored reads back as the
\* value it was given, and a later Set has replaced what an earlier one
\* stored.
C13_SetThenGetRoundTrips ==
    /\ (kv.last.op = "Get" /\ kv.last.found /\ kv.last.age < kv.ttl)
          => kv.last.err = NoErr /\ kv.last.out = kv.last.was
    /\ \A w \in Writers :
          (kv.last.op = "Set" /\ kv.given[kv.last.key] = SetValue(w))
             => /\ kv.store[kv.last.key].present
                /\ Unmarshal(kv.store[kv.last.key].data) = [v |-> SetValue(w), err |-> NoErr]

\* both goroutines have set the key, the second Set replaced the value of
\* the first, and Get returned the second value: a string with a quote
C13_Witness ==
    /\ kv.last.op = "Get"
    /\ kv.last.found
    /\ kv.last.age < kv.ttl
    /\ kv.last.out = JStr(<<"a", "\"", "\\", "b">>)
    /\ \A w \in Writers : kv.g[w].pc = "done" /\ kv.g[w].key = kv.last.key

\* C14: Get and Delete of a key without an entry, and Clear of a cache
\* without entries, return nil, leave out at its zero value and leave the
\* storage without an entry.
C14_AbsentIsNotAnError ==
    (kv.last.op \in {"Get", "Delete", "Clear"} /\ ~kv.last.found)
        => /\ kv.last.err = NoErr
           /\ kv.last.out = Zero
           /\ ~kv.store[kv.last.key].present
           /\ kv.last.op = "Clear" => kv.store = EmptyStore

\* an entry was written and deleted, and the key deleted again
C14_Witness ==
    /\ kv.last.op = "Delete"
    /\ ~kv.last.found
    /\ kv.last.err = NoErr
    /\ \E w \in Writers : kv.g[w].pc = "done" /\ kv.g[w].key = kv.last.key
    /\ kv.store = EmptyStore

Op(op, i, key, st, out, err, info) ==
    LET present == { k \in Keys : kv.store[k].present }
    IN  [kv EXCEPT
           !.store = st,
           !.given = [k \in Keys |-> IF st[k].present THEN @[k] ELSE NoValue],
           !.by = [k \in Keys |-> IF st[k].present THEN @[k] ELSE 0],
           !.last = [op |-> op, inst |-> i, key |-> key,
                     found |-> IF op \in {"Clear", "Info"} THEN present # {}
                               ELSE key \in present,
                     age |-> IF op \notin {"Clear", "Info"} /\ key \in present
                             THEN kv.now - kv.store[key].writtenAt ELSE 0,
                     was |-> kv.given[key], out |-> out, err |-> err, info |-> info,
                     foreign |-> \E k \in present : kv.by[k] # i,
                     expired |-> \E k \in present :
                                    kv.now - kv.store[k].writtenAt > Instances[i].ttl]]

NSSet(i, key) ==
    /\ kv' = [Op("Set", i, key, Persist(kv.store, key, NewEntry(SetValue(i), kv.now)),
                 Zero, NoErr, NoInfo)
                EXCEPT !.given[key] = SetValue(i), !.by[key] = i]
    /\ UNCHANGED <<tui, pipeVars, mt, gs>>

NSGet(i, key, atBoundary) ==
    /\ LET r == CacheGet(kv.store, key, kv.now, Instances[i].ttl, atBoundary)
       IN  kv' = Op("Get", i, key, r.store, r.out, r.err, NoInfo)
    /\ UNCHANGED <<tui, pipeVars, mt, gs>>

NSClear(i) ==
    /\ LET r == CacheClearAll(kv.store)
       IN  kv' = Op("Clear", i, prsKey, r.store, Zero, r.err, NoInfo)
    /\ UNCHANGED <<tui, pipeVars, mt, gs>>

NSInfo(i, countExpired) ==
    /\ LET r == CacheInfo(kv.store, Instances[i].namespace, kv.now, Instances[i].ttl,
                          countExpired)
       IN  kv' = Op("Info", i, prsKey, r.store, Zero, r.err, r.info)
    /\ UNCHANGED <<tui, pipeVars, mt, gs>>

NSTick ==
    /\ kv.now < MaxTime
    /\ kv' = [kv EXCEPT !.now = @ + 1]
    /\ UNCHANGED <<tui, pipeVars, mt, gs>>

InitNS ==
    /\ goarch = "amd64"
    /\ rl = FetcherRateLimiter
    /\ lastWait = NoWait
    /\ cache = EmptyCache
    /\ run = NoRun
    /\ f = NoFrame
    /\ ghost = NoGhost
    /\ runs = 0
    /\ kv = NoNamespace
    /\ mt = NoMatcher
    /\ gs = NoCallers
    /\ tui = NoModel

NextNS ==
    \/ \E i \in DOMAIN Instances, key \in Keys : NSSet(i, key)
    \/ \E i \in DOMAIN Instances, key \in Keys, atBoundary \in BOOLEAN :
          NSGet(i, key, atBoundary)
    \/ \E i \in DOMAIN Instances : NSClear(i)
    \/ \E i \in DOMAIN Instances, countExpired \in BOOLEAN : NSInfo(i, countExpired)
    \/ NSTick

SpecNS == InitNS /\ [][NextNS]_vars

(***************************************************************************)
(* Properties of the caches of one namespace, checked under SpecNS.        *)
(***************************************************************************)
\* C25: the TTL of a cache constructed with a zero TTL is the default TTL,
\* which is not zero: through such a cache a Get of an entry younger than
\* the default TTL returns the value stored, and a Get of an entry older
\* than the default TTL returns nothing and removes the entry.
C25_ZeroTTLIsDefault ==
    \A i \in DOMAIN Instances :
        AskedTTL[i] = 0 =>
          /\ Instances[i].ttl = DefaultTTL
          /\ DefaultTTL > 0
          /\ (kv.last.op = "Get" /\ kv.last.inst = i /\ kv.last.found)
                => /\ kv.last.age < DefaultTTL
                        => kv.last.out = kv.last.was /\ kv.store[kv.last.key].present
                   /\ kv.last.age > DefaultTTL
                        => kv.last.out = Zero /\ ~kv.store[kv.last.key].present

\* through the cache constructed with a zero TTL, an entry older than the
\* default TTL was read and is gone
C25_Witness ==
    /\ kv.last.op = "Get"
    /\ AskedTTL[kv.last.inst] = 0
    /\ kv.last.found
    /\ kv.last.age > DefaultTTL
    /\ kv.last.was \notin {Zero, NoValue}
    /\ kv.last.out = Zero
    /\ ~kv.store[kv.last.key].present

\* C29: after a Clear through any instance no entry of the namespace is
\* left, whichever instance wrote it: a Get of any key through any instance
\* returns nothing and Info reports zero entries.
C29_ClearEmptiesNamespace ==
    kv.last.op = "Clear" =>
        /\ kv.last.err = NoErr
        /\ \A k \in Keys : ~kv.store[k].present
        /\ \A i \in DOMAIN Instances, k \in Keys, b \in BOOLEAN :
              /\ CacheGet(kv.store, k, kv.now, Instances[i].ttl, b).out = Zero
              /\ CacheInfo(kv.store, Instances[i].namespace, kv.now, Instances[i].ttl, b)
                    .info.EntryCount = 0

\* a Clear through one instance found entries under both keys, one of them
\* written through the other instance
C29_Witness ==
    /\ kv.last.op = "Clear"
    /\ kv.last.found
    /\ kv.last.foreign
    /\ kv.last.was # NoValue
    /\ kv.store = EmptyStore

\* C30: a call of Info leaves every entry as it is, so that a Get after it
\* returns what it would have returned before it, and returns no error,
\* expired entries in the storage or not.
C30_InfoIsReadOnly ==
    [][(kv'.last.op = "Info" /\ kv'.now = kv.now)
         => /\ kv'.store = kv.store
            /\ kv'.last.err = NoErr
            /\ \A i \in DOMAIN Instances, k \in Keys, b \in BOOLEAN :
                  CacheGet(kv'.store, k, kv.now, Instances[i].ttl, b)
                    = CacheGet(kv.store, k, kv.now, Instances[i].ttl, b)]_vars

\* Info was called with an expired entry in the storage, which is still
\* there
C30_Witness ==
    /\ kv.last.op = "Info"
    /\ kv.last.expired
    /\ kv.last.err = NoErr
    /\ \E k \in Keys :
          kv.store[k].present /\ kv.now - kv.store[k].writtenAt > Instances[kv.last.inst].ttl

(***************************************************************************)
(* SpecMatch: a MatchResult filled by addMatch, then MatchAll run over a   *)
(* list of records, one record at a time.                                  *)
(***************************************************************************)
AddMatch(match) ==
    /\ mt.pc = "idle"
    /\ Len(mt.mr.Matches) < MaxMatches
    /\ mt' = [mt EXCEPT !.mr = addMatch(mt.mr, match), !.prevScore = mt.mr.Score]
    /\ UNCHANGED <<tui, pipeVars, kv, gs>>

MatchAllBegin(d, prs) ==
    /\ mt.pc = "idle"
    /\ mt.mr.Matches = <<>>
    /\ mt' = [mt EXCEPT !.pc = "matching", !.deps = d, !.prs = prs]
    /\ UNCHANGED <<tui, pipeVars, kv, gs>>

\* one round of `for _, pr := range prs`
MatchNext ==
    /\ mt.pc = "matching"
    /\ mt.next <= Len(mt.prs)
    /\ mt' = [mt EXCEPT !.results = MatchAllStep(mt.deps, mt.results, mt.prs[mt.next]),
                        !.scored = Append(@, matchPR(mt.deps, mt.prs[mt.next])),
                        !.next = @ + 1]
    /\ UNCHANGED <<tui, pipeVars, kv, gs>>

MatchAllReturn ==
    /\ mt.pc = "matching"
    /\ mt.next > Len(mt.prs)
    /\ mt' = [mt EXCEPT !.pc = "done"]
    /\ UNCHANGED <<tui, pipeVars, kv, gs>>

InitMatch ==
    /\ goarch = "amd64"
    /\ rl = FetcherRateLimiter
    /\ lastWait = NoWait
    /\ cache = EmptyCache
    /\ run = NoRun
    /\ f = NoFrame
    /\ ghost = NoGhost
    /\ runs = 0
    /\ kv = NoCache
    /\ mt = NoMatcher
    /\ gs = NoCallers
    /\ tui = NoModel

NextMatch ==
    \/ \E match \in SampleMatches : AddMatch(match)
    \/ \E d \in DepSets, n \in 0..MaxPRs : \E prs \in [1..n -> SamplePRs] : MatchAllBegin(d, prs)
    \/ MatchNext
    \/ MatchAllReturn

SpecMatch == InitMatch /\ [][NextMatch]_vars

(***************************************************************************)
(* SpecTitle: matchPR on a record whose title is typed piece by piece.     *)
(***************************************************************************)
ShortDeps == Dependencies(<<<<"o", "c">>, <<"R">>>>, <<>>)

PathOc ==
    JoinPath(<<<<"p", "k", "g", "s">>,
              <<"b", "y", "-", "n", "a", "m", "e">>,
              <<"o", "c">>,
              <<"o", "c">>,
              <<"p", "a", "c", "k", "a", "g", "e", ".", "n", "i", "x">>>>)

\* the pieces titles are made of
Fragments ==
    { <<"o", "c">>, <<"O", "C">>, <<"r">>, <<"R">>, <<"a">>, <<" ">>, <<"-">>, <<"_">>,
      <<"a", "m", "l", " ", "u", "p", "d", "a", "t", "e">>,
      <<":", " ", "u", "p", "d", "a", "t", "e", " ", "t", "o", " ", "1", ".", "2", ".", "3">> }

TitleState(files, title, n) ==
    [pc |-> "title", deps |-> ShortDeps, files |-> files, title |-> title, n |-> n,
     result |-> matchPR(ShortDeps, PullRequest(1, title, files))]

TypeFragment(frag) ==
    /\ mt.n < MaxFragments
    /\ mt' = TitleState(mt.files, mt.title \o frag, mt.n + 1)
    /\ UNCHANGED <<tui, pipeVars, kv, gs>>

InitTitle ==
    /\ goarch = "amd64"
    /\ rl = FetcherRateLimiter
    /\ lastWait = NoWait
    /\ cache = EmptyCache
    /\ run = NoRun
    /\ f = NoFrame
    /\ ghost = NoGhost
    /\ runs = 0
    /\ kv = NoCache
    /\ mt \in { TitleState(files, <<>>, 0) : files \in { <<>>, <<PathOc>> } }
    /\ gs = NoCallers
    /\ tui = NoModel

NextTitle == \E frag \in Fragments : TypeFragment(frag)

SpecTitle == InitTitle /\ [][NextTitle]_vars

(***************************************************************************)
(* SpecWord: matchPR on a record whose title is typed piece by piece, for  *)
(* names of 3 characters and more (TestMatcher_matchesWithWordBoundary).   *)
(***************************************************************************)
OpensshClient == Openssh \o <<"-", "c", "l", "i", "e", "n", "t">>

LongDeps == Dependencies(<<Openssh, OpensshClient, Git>>, <<>>)

\* the pieces of these titles
WordFragments ==
    { Openssh, <<"O", "p", "e", "n", "S", "S", "H">>, <<"-", "c", "l", "i", "e", "n", "t">>,
      Git, <<"h", "u", "b">>, <<" ">>, <<"-">>, <<"_">>, <<":">>,
      <<" ", "u", "p", "d", "a", "t", "e">> }

WordState(files, title, n) ==
    [pc |-> "word", deps |-> LongDeps, files |-> files, title |-> title, n |-> n,
     result |-> matchPR(LongDeps, PullRequest(1, title, files))]

TypeWord(frag) ==
    /\ mt.n < MaxWords
    /\ mt' = WordState(mt.files, mt.title \o frag, mt.n + 1)
    /\ UNCHANGED <<tui, pipeVars, kv, gs>>

InitWord ==
    /\ goarch = "amd64"
    /\ rl = FetcherRateLimiter
    /\ lastWait = NoWait
    /\ cache = EmptyCache
    /\ run = NoRun
    /\ f = NoFrame
    /\ ghost = NoGhost
    /\ runs = 0
    /\ kv = NoCache
    /\ mt \in { WordState(files, <<>>, 0) : files \in { <<>>, <<PathOpenssh>> } }
    /\ gs = NoCallers
    /\ tui = NoModel

NextWord == \E frag \in WordFragments : TypeWord(frag)

SpecWord == InitWord /\ [][NextWord]_vars

(***************************************************************************)
(* SpecNil: a Matcher made by NewMatcher from any *deps.Dependencies, the  *)
(* nil pointer included, and MatchAll called on a growing list of records. *)
(* NewMatcher stores the pointer as it is; matchPR reads m.deps.Packages   *)
(* (and HasPackage, HasModulePath read d.Packages, d.Modules), which is a  *)
(* nil pointer dereference when the pointer is nil: a run-time panic.      *)
(***************************************************************************)
NilDeps == [nil |-> TRUE]

Panic == [panic |-> TRUE, results |-> <<>>]

Returned(results) == [panic |-> FALSE, results |-> results]

NewMatcher(dependencies) == [deps |-> dependencies]

\* Matcher.MatchAll: the loop calls matchPR for every record, in order
MatcherMatchAll(m, prs) ==
    IF prs = <<>> THEN Returned(<<>>)
    ELSE IF m.deps = NilDeps THEN Panic
    ELSE Returned(MatchAll(m.deps, prs))

\* dependency inputs: none (nil), empty, with an empty name and an empty
\* path, and those of the tests
AnyDeps ==
    { NilDeps, Dependencies(<<>>, <<>>), Dependencies(<< <<>> >>, << <<>> >>),
      Dependencies(<<Git, Openssh, Nautilus>>, <<PathSshd>>) }

\* records: those of the tests and one with no file and an empty title
AnyPRs == SamplePRs \cup { PullRequest(0, <<>>, <<>>) }

NilState(m, prs) == [pc |-> "nil", m |-> m, prs |-> prs, out |-> MatcherMatchAll(m, prs)]

MatchAllMore(pr) ==
    /\ mt.pc = "nil"
    /\ Len(mt.prs) < MaxPRs
    /\ mt' = NilState(mt.m, Append(mt.prs, pr))
    /\ UNCHANGED <<tui, pipeVars, kv, gs>>

InitNil ==
    /\ goarch = "amd64"
    /\ rl = FetcherRateLimiter
    /\ lastWait = NoWait
    /\ cache = EmptyCache
    /\ run = NoRun
    /\ f = NoFrame
    /\ ghost = NoGhost
    /\ runs = 0
    /\ kv = NoCache
    /\ mt \in { NilState(NewMatcher(d), <<>>) : d \in AnyDeps }
    /\ gs = NoCallers
    /\ tui = NoModel

NextNil == \E pr \in AnyPRs : MatchAllMore(pr)

SpecNil == InitNil /\ [][NextNil]_vars

(***************************************************************************)
(* SpecRace: NumCallers goroutines call matchesWithWordBoundary on one     *)
(* Matcher at the same time.  gs.cache is the sync.Map regexCache; Load    *)
(* and Store are its atomic steps, the work between them is local to the   *)
(* goroutine.  A compiled pattern is the record of the name it was         *)
(* compiled from.                                                          *)
(***************************************************************************)
\* slip: the patterns are cached under the first letter of the name
CacheKeyFirstLetter(pkg) == <<pkg[1]>>

\* cacheKey := pkg
CacheKey(pkg) == pkg

\* regexp.MustCompile(`(?i)\b` + regexp.QuoteMeta(pkg) + `\b`)
MustCompile(pkg) == [word |-> pkg]

\* (*regexp.Regexp).MatchString
MatchString(pattern, text) == WordPattern(text, pattern.word)

NoPattern == [word |-> <<>>]

RaceTexts ==
    { Openssh \o <<":", " ", "f", "i", "x">>,
      OpensshClient \o <<":", " ", "f", "i", "x">> }

RacePkgs == { Openssh, OpensshClient }

RaceIdle == [pc |-> "idle", text |-> <<>>, pkg |-> <<>>, pattern |-> NoPattern,
             result |-> FALSE]

RaceState(regexCache, g, stores) ==
    [pc |-> "race", cache |-> regexCache, g |-> g, stores |-> stores]

\* the call and its check for the name followed by a hyphen
RaceCall(c, text, pkg) ==
    /\ gs.pc = "race"
    /\ gs.g[c].pc = "idle"
    /\ gs' = [gs EXCEPT !.g[c] =
                 IF ~HasSubstring(pkg, <<"-">>)
                    /\ HasSubstring(ToLower(text), ToLower(pkg) \o <<"-">>)
                 THEN [RaceIdle EXCEPT !.pc = "done", !.text = text, !.pkg = pkg]
                 ELSE [RaceIdle EXCEPT !.pc = "load", !.text = text, !.pkg = pkg]]
    /\ UNCHANGED <<tui, pipeVars, kv, mt>>

\* m.regexCache.Load(cacheKey): a hit returns the match of the cached
\* pattern, a miss compiles the pattern
RaceLoad(c) ==
    /\ gs.pc = "race"
    /\ gs.g[c].pc = "load"
    /\ LET key == CacheKey(gs.g[c].pkg)
       IN  gs' = [gs EXCEPT !.g[c] =
                     IF key \in DOMAIN gs.cache
                     THEN [@ EXCEPT !.pc = "done",
                                    !.result = MatchString(gs.cache[key], gs.g[c].text)]
                     ELSE [@ EXCEPT !.pc = "store", !.pattern = MustCompile(gs.g[c].pkg)]]
    /\ UNCHANGED <<tui, pipeVars, kv, mt>>

\* m.regexCache.Store(cacheKey, pattern), then the match of the own pattern
RaceStore(c) ==
    /\ gs.pc = "race"
    /\ gs.g[c].pc = "store"
    /\ LET key == CacheKey(gs.g[c].pkg)
       IN  gs' = [gs EXCEPT
                     !.cache = [k \in DOMAIN @ \cup {key} |->
                                   IF k = key THEN gs.g[c].pattern ELSE @[k]],
                     !.stores = @ + 1,
                     !.g[c] = [@ EXCEPT !.pc = "done",
                                        !.result = MatchString(gs.g[c].pattern, gs.g[c].text)]]
    /\ UNCHANGED <<tui, pipeVars, kv, mt>>

InitRace ==
    /\ goarch = "amd64"
    /\ rl = FetcherRateLimiter
    /\ lastWait = NoWait
    /\ cache = EmptyCache
    /\ run = NoRun
    /\ f = NoFrame
    /\ ghost = NoGhost
    /\ runs = 0
    /\ kv = NoCache
    /\ mt = NoMatcher
    /\ gs = RaceState(<<>>, [c \in Callers |-> RaceIdle], 0)
    /\ tui = NoModel

NextRace ==
    \E c \in Callers :
        \/ \E text \in RaceTexts, pkg \in RacePkgs : RaceCall(c, text, pkg)
        \/ RaceLoad(c)
        \/ RaceStore(c)

SpecRace == InitRace /\ [][NextRace]_vars

(***************************************************************************)
(* SpecConf: MatchResult.HighestConfidence over the match lists of up to   *)
(* MaxMatches matches, in every order.  mt.highest is the value returned   *)
(* for mt.result.                                                          *)
(***************************************************************************)
RECURSIVE HighestFirstTier(_, _)
\* slip: the first match that is not low decides
HighestFirstTier(matches, i) ==
    IF i > Len(matches) THEN "low"
    ELSE IF matches[i].Confidence \in {"high", "medium"} THEN matches[i].Confidence
    ELSE HighestFirstTier(matches, i + 1)

HighestConfidenceOfFirst(mr) == HighestFirstTier(mr.Matches, 1)

RECURSIVE HighestFrom(_, _, _)
\* the loop of HighestConfidence from match i on, with the local highest
HighestFrom(matches, i, highest) ==
    IF i > Len(matches) THEN highest
    ELSE IF matches[i].Confidence = "high" THEN "high"
    ELSE HighestFrom(matches, i + 1,
             IF matches[i].Confidence = "medium" /\ highest = "low"
             THEN "medium" ELSE highest)

HighestConfidence(mr) == HighestFrom(mr.Matches, 1, "low")

ConfidenceLevels == {"high", "medium", "low"}

ConfState(mr) == [pc |-> "conf", result |-> mr, highest |-> HighestConfidence(mr)]

\* one more match of the given confidence, then HighestConfidence
AddConfidence(c) ==
    /\ mt.pc = "conf"
    /\ Len(mt.result.Matches) < MaxMatches
    /\ mt' = ConfState([mt.result EXCEPT
                 !.Matches = Append(@, Match("package", Git, PathGit, c)),
                 !.TotalMatches = @ + 1])
    /\ UNCHANGED <<tui, pipeVars, kv, gs>>

InitConf ==
    /\ goarch = "amd64"
    /\ rl = FetcherRateLimiter
    /\ lastWait = NoWait
    /\ cache = EmptyCache
    /\ run = NoRun
    /\ f = NoFrame
    /\ ghost = NoGhost
    /\ runs = 0
    /\ kv = NoCache
    /\ mt = ConfState(NewMatchResult(PullRequest(1, <<>>, <<>>)))
    /\ gs = NoCallers
    /\ tui = NoModel

NextConf == \E c \in ConfidenceLevels : AddConfidence(c)

SpecConf == InitConf /\ [][NextConf]_vars

(***************************************************************************)
(* SpecFiles: phase 1 of matchPR, one changed file at a time.  mt.result   *)
(* is the MatchResult after the files mt.files, mt.before the one before   *)
(* the last of them.                                                       *)
(***************************************************************************)
PathSshdDoc == PathSshd \o <<".", "m", "d">>

PathNginxSshd ==
    JoinPath(<<<<"n", "i", "x", "o", "s">>,
              <<"m", "o", "d", "u", "l", "e", "s">>,
              <<"n", "g", "i", "n", "x">>,
              <<"s", "s", "h", "d", ".", "n", "i", "x">>>>)

\* a module path that ends with a slash: its last segment is empty
ModuleSlash ==
    <<"n", "i", "x", "o", "s", "/", "m", "o", "d", "u", "l", "e", "s", "/">>

ModuleDeps ==
    { Dependencies(<<Git>>, <<PathSshd, ModuleNginx>>),
      Dependencies(<<Git>>, <<ModuleNginx, PathSshd>>),
      Dependencies(<<>>, <<ModuleSlash, ModuleNginx>>) }

ChangedFiles == { PathSshd, PathSshdDoc, PathNginx, PathNginxSshd, PathGit, PathRandom }

FilesState(d, files, before, result) ==
    [pc |-> "files", deps |-> d, files |-> files, before |-> before, result |-> result]

\* one round of `for _, file := range pr.Files`
MatchNextFile(path) ==
    /\ mt.pc = "files"
    /\ Len(mt.files) < MaxFiles
    /\ mt' = FilesState(mt.deps, Append(mt.files, path), mt.result,
                        MatchFile(mt.deps, mt.result, path))
    /\ UNCHANGED <<tui, pipeVars, kv, gs>>

InitFiles ==
    /\ goarch = "amd64"
    /\ rl = FetcherRateLimiter
    /\ lastWait = NoWait
    /\ cache = EmptyCache
    /\ run = NoRun
    /\ f = NoFrame
    /\ ghost = NoGhost
    /\ runs = 0
    /\ kv = NoCache
    /\ mt \in { FilesState(d, <<>>, NewMatchResult(PullRequest(1, <<>>, <<>>)),
                            NewMatchResult(PullRequest(1, <<>>, <<>>))) : d \in ModuleDeps }
    /\ gs = NoCallers
    /\ tui = NoModel

NextFiles == \E path \in ChangedFiles : MatchNextFile(path)

SpecFiles == InitFiles /\ [][NextFiles]_vars

(***************************************************************************)
(* SpecTUI: the Update loop of cmd/lazypr with the list pane, the filter   *)
(* line and the input modal.  tui holds the fields of Model that these     *)
(* use, the key or message of the last Update (key) and the command it     *)
(* returned (cmd); loads counts the load commands in flight.  The help     *)
(* screen, the checks and actions modals, the detail viewport and quitting *)
(* are left out, and the list pane keeps the focus.  The text widgets are  *)
(* their value: typing appends.                                            *)
(***************************************************************************)
PRDetail(number, title, author) == [Number |-> number, Title |-> title, Author |-> author]

DetailA == PRDetail(1, <<"F", "i", "x">>, <<"a", "n", "n">>)

DetailB == PRDetail(2, <<"B", "u", "m", "p">>, <<"b", "o", "b">>)

\* the lists a load delivers
LoadedLists == { <<DetailA, DetailB>>, <<DetailB>> }

\* what is typed on the filter line
FilterTexts == { <<"B">>, <<"z">> }

NoCmd == [kind |-> "none", prs |-> <<>>, message |-> <<>>]

Cmd(kind) == [kind |-> kind, prs |-> <<>>, message |-> <<>>]

\* approvePRsWithComment, commentPRs, requestChangesPRs
ReviewCmd(kind, prs, message) == [kind |-> kind, prs |-> prs, message |-> message]

\* Model.filteredPRs
filteredPRs(model) ==
    IF model.filterText = <<>> THEN model.prs
    ELSE SelectSeq(model.prs,
             LAMBDA pr : \/ HasSubstring(ToLower(pr.Title), ToLower(model.filterText))
                         \/ HasSubstring(ToLower(pr.Author), ToLower(model.filterText))
                         \/ HasSubstring(Digits(pr.Number), ToLower(model.filterText)))

\* the orders in which `for idx := range m.selected` can visit the indices
RangeOrders(S) ==
    { order \in [1..Cardinality(S) -> S] :
        \A i, j \in 1..Cardinality(S) : i # j => order[i] # order[j] }

RECURSIVE PRsAt(_, _)
\* the records at the indices, those past the end of the list skipped
PRsAt(prs, order) ==
    IF order = <<>> THEN <<>>
    ELSE (IF order[1] < Len(prs) THEN <<prs[order[1] + 1]>> ELSE <<>>)
         \o PRsAt(prs, Tail(order))

\* Model.getSelectedPRs: the lists it can return, one for each order of the
\* map iteration
getSelectedPRs(model) ==
    IF model.selected # {}
    THEN { PRsAt(model.prs, order) : order \in RangeOrders(model.selected) }
    ELSE IF model.cursor >= 0 /\ model.cursor < Len(model.prs)
    THEN { <<model.prs[model.cursor + 1]>> }
    ELSE { <<>> }

NewModel ==
    [pc |-> "tui", prs |-> <<>>, cursor |-> 0, selected |-> {},
     filterMode |-> FALSE, filterText |-> <<>>, filterInput |-> <<>>,
     inputMode |-> FALSE, inputAction |-> "", inputPRs |-> <<>>, inputModel |-> <<>>,
     statusMsg |-> "", key |-> "", cmd |-> Cmd("load"), loads |-> 1]

Normal == tui.pc = "tui" /\ ~tui.filterMode /\ ~tui.inputMode

\* the model and the command an Update returns
Updated(model, key, cmd) ==
    /\ tui' = [model EXCEPT !.key = key, !.cmd = cmd]
    /\ UNCHANGED <<pipeVars, kv, mt, gs>>

\* "j", "down" and "k", "up"
KeyMove(key, step) ==
    /\ Normal
    /\ LET prs == filteredPRs(tui)
       IN  Updated(IF Len(prs) > 0
                  THEN [tui EXCEPT !.cursor = (@ + step + Len(prs)) % Len(prs)]
                  ELSE tui,
                  key, NoCmd)

\* " "
KeySpace ==
    /\ Normal
    /\ Updated(IF Len(tui.prs) > 0
              THEN [tui EXCEPT
                       !.selected = IF tui.cursor \in @ THEN @ \ {tui.cursor}
                                    ELSE @ \cup {tui.cursor},
                       !.cursor = IF @ < Len(tui.prs) - 1 THEN @ + 1 ELSE @]
              ELSE tui,
              " ", NoCmd)

\* "v"
KeySelectAll ==
    /\ Normal
    /\ Updated(IF Len(tui.prs) > 0
              THEN [tui EXCEPT
                       !.selected = IF Cardinality(@) = Len(tui.prs) THEN {}
                                    ELSE @ \cup 0..(Len(tui.prs) - 1)]
              ELSE tui,
              "v", NoCmd)

\* "a", "c", "r": the input modal opens for the selected records
KeyReview(key, action) ==
    /\ Normal
    /\ \E prs \in getSelectedPRs(tui) :
          IF Len(prs) > 0
          THEN Updated([tui EXCEPT !.inputMode = TRUE, !.inputAction = action,
                                  !.inputPRs = prs, !.inputModel = <<>>,
                                  !.selected = {}],
                      key, Cmd("blink"))
          ELSE Updated(tui, key, NoCmd)

\* "R"
KeyReload ==
    /\ Normal
    /\ tui.loads < MaxLoads
    /\ Updated([tui EXCEPT !.loads = @ + 1], "R", Cmd("load"))

\* "/"
KeyFilter ==
    /\ Normal
    /\ Updated([tui EXCEPT !.filterMode = TRUE, !.filterInput = tui.filterText],
              "/", Cmd("blink"))

\* "esc" with a filter: the filter is cleared
KeyEsc ==
    /\ Normal
    /\ tui.filterText # <<>>
    /\ Updated([tui EXCEPT !.filterText = <<>>, !.cursor = 0], "esc", NoCmd)

\* updateFilterMode
FilterKey(key) ==
    /\ tui.pc = "tui"
    /\ tui.filterMode
    /\ CASE key = "enter" ->
              Updated([tui EXCEPT !.filterText = tui.filterInput, !.filterMode = FALSE,
                                 !.cursor = 0], key, NoCmd)
         [] key = "esc" -> Updated([tui EXCEPT !.filterMode = FALSE], key, NoCmd)
         [] key = "ctrl+c" ->
              Updated([tui EXCEPT !.filterText = <<>>, !.filterMode = FALSE,
                                 !.cursor = 0], key, NoCmd)

\* updateFilterMode, every other key: the text input takes it
FilterType(text) ==
    /\ tui.pc = "tui"
    /\ tui.filterMode
    /\ Updated([tui EXCEPT !.filterInput = text], "runes", NoCmd)

\* slip: an empty approval is refused like an empty comment
SubmitRefusingEmpty(model, action, prs, message) ==
    IF message = <<>>
    THEN <<[model EXCEPT !.statusMsg = "Comment cannot be empty"], NoCmd>>
    ELSE <<model, ReviewCmd(action, prs, message)>>

\* updateInputMode, `switch action` of the submit keys: the model and the
\* command returned
Submit(model, action, prs, message) ==
    CASE action = "approve" -> <<model, ReviewCmd("approve", prs, message)>>
      [] action = "comment" ->
           IF message = <<>>
           THEN <<[model EXCEPT !.statusMsg = "Comment cannot be empty"], NoCmd>>
           ELSE <<model, ReviewCmd("comment", prs, message)>>
      [] action = "changes" ->
           IF message = <<>>
           THEN <<[model EXCEPT !.statusMsg = "Reason cannot be empty"], NoCmd>>
           ELSE <<model, ReviewCmd("changes", prs, message)>>
      [] OTHER -> <<model, NoCmd>>

\* updateInputMode: "ctrl+j", "ctrl+d", "ctrl+s", "esc", "ctrl+c"
InputKey(key) ==
    /\ tui.pc = "tui"
    /\ ~tui.filterMode
    /\ tui.inputMode
    /\ CASE key = "ctrl+j" ->
              /\ Len(tui.inputModel) < MaxMessage
              /\ Updated([tui EXCEPT !.inputModel = Append(@, "\n")], key, NoCmd)
         [] key \in {"ctrl+d", "ctrl+s"} ->
              LET out == Submit([tui EXCEPT !.inputMode = FALSE, !.inputPRs = <<>>],
                                tui.inputAction, tui.inputPRs, tui.inputModel)
              IN  Updated(out[1], key, out[2])
         [] key \in {"esc", "ctrl+c"} ->
              Updated([tui EXCEPT !.inputMode = FALSE, !.inputPRs = <<>>], key, NoCmd)

\* updateInputMode, every other key: the text area takes it
InputType(c) ==
    /\ tui.pc = "tui"
    /\ ~tui.filterMode
    /\ tui.inputMode
    /\ Len(tui.inputModel) < MaxMessage
    /\ Updated([tui EXCEPT !.inputModel = Append(@, c)], "runes", NoCmd)

\* a load command ends: prLoadedMsg, or prErrorMsg, which leaves the list as
\* it is.  The filter line and the input modal hand the message to their
\* text widget, which drops it.
LoadEnds(prs, ok) ==
    /\ tui.pc = "tui"
    /\ tui.loads > 0
    /\ Updated(IF ok /\ ~tui.filterMode /\ ~tui.inputMode
              THEN [tui EXCEPT !.prs = prs, !.loads = @ - 1]
              ELSE [tui EXCEPT !.loads = @ - 1],
              IF ok THEN "prLoadedMsg" ELSE "prErrorMsg", NoCmd)

\* the review command ends: actionResult
ActionResult ==
    /\ tui.pc = "tui"
    /\ ~tui.filterMode
    /\ tui.cmd.kind \in {"approve", "comment", "changes"}
    /\ Updated(IF tui.inputMode THEN [tui EXCEPT !.statusMsg = "done", !.inputMode = FALSE]
              ELSE [tui EXCEPT !.statusMsg = "done"],
              "actionResult", NoCmd)

InitTUI ==
    /\ goarch = "amd64"
    /\ rl = FetcherRateLimiter
    /\ lastWait = NoWait
    /\ cache = EmptyCache
    /\ run = NoRun
    /\ f = NoFrame
    /\ ghost = NoGhost
    /\ runs = 0
    /\ kv = NoCache
    /\ mt = NoMatcher
    /\ gs = NoCallers
    /\ tui = NewModel

NextTUI ==
    \/ KeyMove("j", 1)
    \/ KeyMove("k", -1)
    \/ KeySpace
    \/ KeySelectAll
    \/ KeyReview("a", "approve")
    \/ KeyReview("c", "comment")
    \/ KeyReview("r", "changes")
    \/ KeyReload
    \/ KeyFilter
    \/ KeyEsc
    \/ \E key \in {"enter", "esc", "ctrl+c"} : FilterKey(key)
    \/ \E text \in FilterTexts : FilterType(text)
    \/ \E key \in {"ctrl+j", "ctrl+d", "ctrl+s", "esc", "ctrl+c"} : InputKey(key)
    \/ InputType("o")
    \/ \E prs \in LoadedLists, ok \in BOOLEAN : LoadEnds(prs, ok)
    \/ ActionResult

SpecTUI == InitTUI /\ [][NextTUI]_vars

(***************************************************************************)
(* Properties of the matcher, checked under SpecMatch and SpecTitle.       *)
(***************************************************************************)
\* C16: MatchAll returns the results of exactly the records with at least
\* one match, in the order of the records; no returned result is without
\* matches.
C16_MatchAllKeepsMatchedInOrder ==
    /\ \A i \in 1..Len(mt.scored) : mt.scored[i].PR = mt.prs[i]
    /\ mt.results = SelectSeq(mt.scored, LAMBDA r : Len(r.Matches) >= 1)
    /\ \A i \in 1..Len(mt.results) : Len(mt.results[i].Matches) >= 1
    /\ mt.pc = "done" => /\ Len(mt.scored) = Len(mt.prs)
                         /\ mt.results = MatchAll(mt.deps, mt.prs)

\* of two records the first has no match and the second has: MatchAll
\* returned the result of the second alone
C16_Witness ==
    /\ mt.pc = "done"
    /\ Len(mt.prs) = 2
    /\ Len(mt.scored[1].Matches) = 0
    /\ Len(mt.results) = 1
    /\ mt.results[1].PR = mt.prs[2]

TierWeight(confidence) ==
    IF confidence = "high" THEN 100 ELSE IF confidence = "medium" THEN 50 ELSE 25

RECURSIVE WeightSum(_)
WeightSum(matches) ==
    IF matches = <<>> THEN 0
    ELSE TierWeight(matches[1].Confidence) + WeightSum(Tail(matches))

Confidences(mr) == [i \in 1..Len(mr.Matches) |-> mr.Matches[i].Confidence]

\* C17: the score of a MatchResult is min(100, sum of the weights of its
\* matches: high 100, medium 50, low 25); it lies in 0..100, does not go
\* down when a match is appended, is 100 for one high and one medium match
\* and 50 for a single medium match.
C17_ScoreIsCappedSum ==
    /\ \A r \in {mt.mr} \cup { mt.scored[i] : i \in 1..Len(mt.scored) } :
          /\ r.Score = Min(100, WeightSum(r.Matches))
          /\ r.Score \in 0..100
          /\ r.TotalMatches = Len(r.Matches)
    /\ mt.mr.Score >= mt.prevScore
    /\ Confidences(mt.mr) = <<"high", "medium">> => mt.mr.Score = 100
    /\ Confidences(mt.mr) = <<"medium">> => mt.mr.Score = 50

\* a medium match appended to a high one: 100 + 50 is capped at 100
C17_Witness ==
    /\ Confidences(mt.mr) = <<"high", "medium">>
    /\ mt.prevScore = 100
    /\ mt.mr.Score = 100

\* C18: no two matches of the result of matchPR for one record carry the
\* same dependency.
C18_NoDependencyMatchedTwice ==
    \A n \in 1..Len(mt.scored) :
        \A i, j \in 1..Len(mt.scored[n].Matches) :
            i # j => mt.scored[n].Matches[i].Dependency # mt.scored[n].Matches[j].Dependency

\* C19: against the package set {git}, a record whose only changed file is
\* pkgs/by-name/gi/git/package.nix has exactly one match: type package,
\* dependency git, that file path, confidence high (whatever its title); a
\* record whose only changed file is pkgs/by-name/ra/random/package.nix has
\* no match from the file, and none at all unless its title names git.
C19_ByNamePackageFileMatch ==
    \A n \in 1..Len(mt.scored) :
        mt.deps.Packages = <<Git>>
           => /\ mt.prs[n].Files = <<PathGit>>
                   => mt.scored[n].Matches = << [Type |-> "package", Dependency |-> Git,
                                                 FilePath |-> PathGit, Confidence |-> "high"] >>
              /\ mt.prs[n].Files = <<PathRandom>>
                   => /\ \A i \in 1..Len(mt.scored[n].Matches) :
                            mt.scored[n].Matches[i].Type = "title"
                      /\ ~HasSubstring(ToLower(mt.prs[n].Title), Git)
                            => mt.scored[n].Matches = <<>>

\* the record with the git file and the record with the random file were
\* both matched against {git}
C19_Witness ==
    /\ mt.deps.Packages = <<Git>>
    /\ Len(mt.scored) = 2
    /\ mt.prs[1].Files = <<PathGit>>
    /\ Len(mt.scored[1].Matches) = 1
    /\ mt.prs[2].Files = <<PathRandom>>
    /\ mt.scored[2].Matches = <<>>

\* the characters a token is made of
TokenChars ==
    { LowerLetters[i] : i \in 1..26 } \cup { DigitChars[i] : i \in 1..10 } \cup {"-", "_"}

\* text holds word as a whole token: an occurrence made of token characters
\* with no token character next to it on either side
HasToken(text, word) ==
    /\ word # <<>>
    /\ \A k \in 1..Len(word) : word[k] \in TokenChars
    /\ \E i \in 1..Len(text) :
          /\ OccursAt(text, word, i)
          /\ i > 1 => text[i - 1] \notin TokenChars
          /\ i + Len(word) <= Len(text) => text[i + Len(word)] \notin TokenChars

HasTitleMatch(result, name) ==
    \E i \in 1..Len(result.Matches) :
        result.Matches[i].Type = "title" /\ result.Matches[i].Dependency = name

HasFileMatch(result, name) ==
    \E i \in 1..Len(result.Matches) :
        result.Matches[i].Type # "title" /\ result.Matches[i].Dependency = name

\* C20: a package name of fewer than 3 characters that no changed file has
\* matched produces a title match iff the lower-cased title, cut at every
\* character that is not a lowercase letter, digit, hyphen or underscore,
\* has a token equal to the package name.
C20_ShortNameExactToken ==
    \A p \in 1..Len(mt.deps.Packages) :
        LET name == mt.deps.Packages[p]
        IN  (Len(name) < 3 /\ ~HasFileMatch(mt.result, name))
               => (HasTitleMatch(mt.result, name) <=> HasToken(ToLower(mt.title), name))

\* C20, amended: ... has a token equal to the lower-cased package name.
C20_ShortNameLowerCasedToken ==
    \A p \in 1..Len(mt.deps.Packages) :
        LET name == mt.deps.Packages[p]
        IN  Len(name) < 3
               => (HasTitleMatch(mt.result, name)
                     <=> (HasToken(ToLower(mt.title), ToLower(name))
                          /\ ~HasFileMatch(mt.result, name)))

\* "oc: update to 1.2.3" matched oc by its title, and R not
C20_Witness ==
    /\ mt.title = <<"o", "c", ":", " ", "u", "p", "d", "a", "t", "e", " ", "t", "o", " ", "1", ".", "2", ".", "3">>
    /\ mt.files = <<>>
    /\ HasTitleMatch(mt.result, <<"o", "c">>)
    /\ ~HasTitleMatch(mt.result, <<"R">>)

\* letters, digits and the underscore
WordChars == (TokenChars \ {"-"}) \cup { UpperLetters[i] : i \in 1..26 }

\* the name occurs in the title at position i, whatever the case of the
\* letters, and neither the character before it nor the one after it is a
\* letter, a digit or an underscore (the names here begin and end with a
\* letter)
StandsAlone(title, name, i) ==
    /\ i + Len(name) - 1 <= Len(title)
    /\ \A k \in 1..Len(name) : ToLower(<<title[i + k - 1]>>) = ToLower(<<name[k]>>)
    /\ i > 1 => title[i - 1] \notin WordChars
    /\ i + Len(name) <= Len(title)
          => title[i + Len(name)] \notin WordChars

\* the title has the name immediately followed by a hyphen
FollowedByHyphen(title, name) ==
    \E i \in 1..Len(title) :
        /\ i + Len(name) <= Len(title)
        /\ \A k \in 1..Len(name) : title[i + k - 1] = name[k]
        /\ title[i + Len(name)] = "-"

\* C21: a package name of 3 characters or more has a title match only if
\* the name stands in the title at a word boundary on both sides, letter
\* case ignored; and a name without a hyphen has no title match when the
\* title has the name immediately followed by a hyphen.
C21_LongNameAtWordBoundary ==
    mt.pc = "word" =>
        \A p \in 1..Len(mt.deps.Packages) :
            LET name == mt.deps.Packages[p]
            IN  Len(name) >= 3 =>
                  /\ HasTitleMatch(mt.result, name)
                        => \E i \in 1..Len(mt.title) : StandsAlone(mt.title, name, i)
                  /\ ("-" \notin { name[k] : k \in 1..Len(name) }
                        /\ FollowedByHyphen(mt.title, name))
                        => ~HasTitleMatch(mt.result, name)

\* "openssh-client update": openssh-client matched by the title, openssh not
C21_Witness ==
    /\ mt.pc = "word"
    /\ mt.files = <<>>
    /\ mt.title = OpensshClient \o <<" ", "u", "p", "d", "a", "t", "e">>
    /\ HasTitleMatch(mt.result, OpensshClient)
    /\ ~HasTitleMatch(mt.result, Openssh)

\* C22: matching never panics, whatever the dependency input (nil, empty,
\* malformed) and the records (no files, empty title), and without
\* dependency information no record is matched.
C22_MatcherNeverFails ==
    mt.pc = "nil" =>
        /\ ~mt.out.panic
        /\ mt.m.deps \in { NilDeps, Dependencies(<<>>, <<>>) } => mt.out.results = <<>>

\* the matches the last changed file added
AddedByFile ==
    SubSeq(mt.result.Matches, Len(mt.before.Matches) + 1, Len(mt.result.Matches))

LastFile == mt.files[Len(mt.files)]

\* the known modules whose final path segment occurs in the path
LeafHits(path) ==
    { i \in 1..Len(mt.deps.Modules) :
        HasSubstring(path, extractServiceName(mt.deps.Modules[i])) }

\* the same, modules with an empty final segment left out
NonEmptyLeafHits(path) ==
    { i \in LeafHits(path) : extractServiceName(mt.deps.Modules[i]) # <<>> }

FirstOf(S) == CHOOSE i \in S : \A k \in S : i <= k

ModuleMatch(dependency, path) == Match("module", dependency, path, "high")

\* the last file is under a module root and was not matched as a package
IsModuleFileStep ==
    /\ mt.pc = "files"
    /\ mt.files # <<>>
    /\ \E root \in { <<"n", "i", "x", "o", "s">>,
                      <<"h", "o", "m", "e", "-", "m", "a", "n", "a", "g", "e", "r">> } :
          OccursAt(LastFile, root \o <<"/", "m", "o", "d", "u", "l", "e", "s", "/">>, 1)
    /\ \A i \in 1..Len(AddedByFile) : AddedByFile[i].Type # "package"

\* C31: a changed file under a module root that is not matched as a
\* package adds, if it is a known module path, one module match with that
\* path; otherwise one module match with the final segment of the first
\* known module whose final segment occurs in the file path, and nothing
\* when there is no such module; never more than one match.
C31_ModuleMatchExactThenFirstLeaf ==
    IsModuleFileStep =>
        IF \E i \in 1..Len(mt.deps.Modules) : mt.deps.Modules[i] = LastFile
        THEN AddedByFile = <<ModuleMatch(LastFile, LastFile)>>
        ELSE IF LeafHits(LastFile) # {}
        THEN AddedByFile = <<ModuleMatch(
                 extractServiceName(mt.deps.Modules[FirstOf(LeafHits(LastFile))]), LastFile)>>
        ELSE AddedByFile = <<>>

\* C31, amended: ... otherwise the first known module whose final segment
\* is not empty and occurs in the file path ends the scan, and one module
\* match with that segment is added unless the result already has a match
\* whose dependency is the path of that module.
C31_ModuleMatchUnlessPathMatched ==
    IsModuleFileStep =>
        IF \E i \in 1..Len(mt.deps.Modules) : mt.deps.Modules[i] = LastFile
        THEN AddedByFile = <<ModuleMatch(LastFile, LastFile)>>
        ELSE IF NonEmptyLeafHits(LastFile) # {}
        THEN LET mod == mt.deps.Modules[FirstOf(NonEmptyLeafHits(LastFile))]
             IN  IF \E i \in 1..Len(mt.before.Matches) :
                        mt.before.Matches[i].Dependency = mod
                 THEN AddedByFile = <<>>
                 ELSE AddedByFile = <<ModuleMatch(extractServiceName(mod), LastFile)>>
        ELSE AddedByFile = <<>>

\* a file in which the final segments of two known modules occur got one
\* match, for the module that is first in the list
C31_Witness ==
    /\ mt.pc = "files"
    /\ mt.files = <<PathNginxSshd>>
    /\ mt.deps.Modules = <<ModuleNginx, PathSshd>>
    /\ mt.result.Matches = <<ModuleMatch(<<"n", "g", "i", "n", "x">>, PathNginxSshd)>>

\* C32: HighestConfidence is the best tier among the matches whatever
\* their order: high if one is high, else medium if one is medium, else low.
C32_HighestConfidenceIsBestTier ==
    mt.pc = "conf" =>
        mt.highest =
            IF \E i \in 1..Len(mt.result.Matches) : mt.result.Matches[i].Confidence = "high"
            THEN "high"
            ELSE IF \E i \in 1..Len(mt.result.Matches) :
                        mt.result.Matches[i].Confidence = "medium"
            THEN "medium"
            ELSE "low"

\* high was returned for a list whose high match comes after a low and a
\* medium one
C32_Witness ==
    /\ mt.pc = "conf"
    /\ Confidences(mt.result) = <<"low", "medium", "high">>
    /\ mt.highest = "high"

\* C33: whatever the interleaving of the callers' Load and Store steps,
\* every call returns what the same call returns when it runs alone.
C33_RaceFreeDecisions ==
    gs.pc = "race" =>
        \A c \in Callers :
            gs.g[c].pc = "done" =>
                gs.g[c].result = matchesWithWordBoundary(gs.g[c].text, gs.g[c].pkg)

\* two callers missed the cache for the same name, both compiled and stored
\* its pattern, and both returned a match
C33_Witness ==
    /\ gs.pc = "race"
    /\ gs.stores >= 2
    /\ DOMAIN gs.cache = {Openssh}
    /\ \E c, d \in Callers :
          /\ c # d
          /\ gs.g[c].pc = "done" /\ gs.g[c].pkg = Openssh /\ gs.g[c].result
          /\ gs.g[d].pc = "done" /\ gs.g[d].pkg = Openssh /\ gs.g[d].result

\* C34: a submit key in the input modal leaves input mode; a review
\* command is returned exactly if the action is approve or the message is
\* not empty; an empty comment or request for changes returns no command
\* and sets a "cannot be empty" status.
C34_SubmitLeavesInputMode ==
    [][ (\E key \in {"ctrl+d", "ctrl+s"} : InputKey(key)) =>
            /\ ~tui'.inputMode
            /\ (tui'.cmd.kind \in {"approve", "comment", "changes"})
                   <=> (tui.inputAction = "approve" \/ tui.inputModel # <<>>)
            /\ tui'.cmd.kind \in {"approve", "comment", "changes"} =>
                   /\ tui'.cmd.kind = tui.inputAction
                   /\ tui'.cmd.prs = tui.inputPRs
                   /\ tui'.cmd.message = tui.inputModel
            /\ (tui.inputAction \in {"comment", "changes"} /\ tui.inputModel = <<>>) =>
                   /\ tui'.cmd = NoCmd
                   /\ tui'.statusMsg \in {"Comment cannot be empty", "Reason cannot be empty"}
      ]_vars

\* an approval with an empty message was submitted
C34_Witness ==
    /\ tui.pc = "tui"
    /\ tui.key = "ctrl+d"
    /\ ~tui.inputMode
    /\ tui.cmd = ReviewCmd("approve", <<DetailB>>, <<>>)

\* a request for changes with an empty message was refused
C34_WitnessRefused ==
    /\ tui.pc = "tui"
    /\ tui.key = "ctrl+s"
    /\ ~tui.inputMode
    /\ tui.cmd = NoCmd
    /\ tui.statusMsg = "Reason cannot be empty"

\* the record the list pane draws at the cursor
AtCursor(model) ==
    IF model.cursor < Len(filteredPRs(model))
    THEN <<filteredPRs(model)[model.cursor + 1]>>
    ELSE <<>>

\* C40: with nothing selected, approve, comment and request changes take
\* the record drawn at the cursor, and the selection toggle marks it, with
\* or without a filter and after a reload.
C40_ActionOnRecordAtCursor ==
    [][ /\ (tui.selected = {} /\ \/ KeyReview("a", "approve")
                                 \/ KeyReview("c", "comment")
                                 \/ KeyReview("r", "changes")) =>
              tui'.inputPRs = AtCursor(tui)
        /\ (KeySpace /\ tui'.selected # tui.selected) =>
              /\ AtCursor(tui) # <<>>
              /\ \A prs \in getSelectedPRs([tui' EXCEPT !.selected =
                        (tui'.selected \ tui.selected) \cup (tui.selected \ tui'.selected)]) :
                     prs = AtCursor(tui)
      ]_vars

(***************************************************************************)
(* Properties of the fetcher and of runWatch, checked under Spec.          *)
(***************************************************************************)
LastCall == ghost.calls[Len(ghost.calls)]

\* the records runWatch must end up with after the fetch returned
MergedPRs == (IF run.branch = "incremental" THEN run.cachedPRs ELSE <<>>) \o f.retPRs

\* C1: when a batch of FetchNixpkgsPRsWithCursor fails (a terminal error, or
\* a transient error on all three attempts), the function returns a non-nil
\* error together with exactly the records of the batches that succeeded
\* before it, in the order the remote source delivered them.
C1_PartialFailureKeepsRecords ==
    (f.pc = "returned" /\ ghost.finalKind \in {"terminal", "exhausted"})
        => /\ f.retErr # NoErr
           /\ f.retPRs = ghost.delivered

\* batch 1 of 2 succeeded with 100 records and batch 2 failed terminally
C1_Witness ==
    /\ f.pc = "returned"
    /\ ghost.finalKind = "terminal"
    /\ f.batchNum = 2
    /\ Len(f.retPRs) = 100
    /\ f.retErr # NoErr

\* C2: at both call sites of the fetch in runWatch, a fetch that returns an
\* error together with at least one new record does not abort the
\* invocation: runWatch calls Set for the record list and for the metadata
\* (length of the list, returned cursor), every Set that succeeds leaves that
\* value in the cache, and the records go on to the matcher.
C2_PartialResultsCachedAndUsed ==
    (run.pc \in {"done", "failed"} /\ run.branch \in {"incremental", "fresh"}
     /\ f.retErr # NoErr /\ Len(f.retPRs) > 0)
        => /\ run.pc = "done"
           /\ run.prs = MergedPRs
           /\ run.matched = MergedPRs
           /\ run.sets = << [key |-> prsKey, value |-> MergedPRs],
                            [key |-> metadataKey,
                             value |-> [MaxLimit |-> Len(MergedPRs),
                                        Cursor |-> f.retCursor]] >>
           /\ \A i \in 1..2 :
                run.setOk[i] => /\ cache[run.sets[i].key].present
                                /\ cache[run.sets[i].key].payload = run.sets[i].value

\* the fresh fetch failed after its first batch and both entries were written
C2_Witness ==
    /\ run.pc = "done"
    /\ run.branch = "fresh"
    /\ f.retErr # NoErr
    /\ Len(f.retPRs) = 100
    /\ run.setOk = <<TRUE, TRUE>>
    /\ cache[prsKey].payload = f.retPRs

\* C3: with a record list and metadata in the cache and a limit above the
\* number of cached records, the fetcher is asked for exactly
\* limit - len(cached records) starting at the cached cursor, and the
\* resulting list is the cached records followed by the fetched ones.
C3_IncrementalFetchesDelta ==
    (run.pc # "idle" /\ ~run.refreshPRs /\ run.loadedMeta /\ run.loadedPRs
     /\ Len(run.cachedPRs) > 0 /\ run.limit > Len(run.cachedPRs))
        => /\ run.branch = "incremental"
           /\ f.limit = run.limit - Len(run.cachedPRs)
           /\ f.afterCursor = run.metadata.Cursor
           /\ (run.pc = "done" => run.prs = run.cachedPRs \o f.retPRs)

\* C4: with a limit at most the number of cached records and no refresh
\* forced, no remote call is made and the records used are the first
\* `limit` cached records.
C4_CacheHitUsesPrefix ==
    (run.pc # "idle" /\ ~run.refreshPRs /\ run.loadedMeta /\ run.loadedPRs
     /\ run.limit <= Len(run.cachedPRs))
        => /\ run.pc = "done"
           /\ f.pc = "none"
           /\ ghost.nCalls = 0
           /\ run.prs = SubSeq(run.cachedPRs, 1, run.limit)

\* C5: the attempts of one batch all ask for the same number of records at
\* the same cursor; there are at most 3; all but the last failed with a
\* transient error; after a transient failure the batch is retried unless it
\* was the 3rd attempt, and only then is an error returned; a successful
\* attempt makes its page and its end cursor the result of the batch.
C5_TransientRetriedInPlace ==
    LET calls == ghost.calls
        n == Len(calls)
    IN  /\ n <= 3
        /\ \A i \in 1..n : /\ calls[i].limit = calls[1].limit
                           /\ calls[i].after = calls[1].after
                           /\ calls[i].batch = f.batchNum
        /\ \A i \in 1..(n - 1) : calls[i].class = "transient"
        /\ (n > 0 /\ calls[n].class = "transient")
              => IF n < 3
                 THEN f.pc = "attempt" /\ f.attempt = n + 1 /\ f.retErr = NoErr
                 ELSE f.pc = "returned" /\ f.retErr = FailedAfter(f.lastErr)
        /\ (n > 0 /\ calls[n].class = "ok")
              => /\ f.allPRs = ghost.delivered
                 /\ f.currentCursor = ghost.lastCursor
                 /\ f.currentCursor = EndCursor(calls[n].limit, calls[n].after)

\* two transient failures, then the third attempt of the batch succeeded
C5_Witness ==
    /\ Len(ghost.calls) = 3
    /\ ghost.calls[1].class = "transient"
    /\ ghost.calls[2].class = "transient"
    /\ ghost.calls[3].class = "ok"
    /\ Len(f.allPRs) > 0

\* C6: an attempt that fails with an error isRetryableError rejects is the
\* last remote call of the fetch: the batch is not retried, no further batch
\* is issued, and the fetch returns that very error to its caller.
C6_TerminalNeverRetried ==
    (ghost.finalKind = "terminal")
        => /\ ghost.nCalls = ghost.final
           /\ LastCall.class = "terminal"
           /\ f.pc = "returned"
           /\ f.retErr # NoErr
           /\ f.retErr = f.lastErr
           /\ ~isRetryableError(f.retErr)
           /\ (run.pc \in {"done", "failed"} => run.fetchErr = f.retErr)

\* the second attempt of a batch failed terminally (HTTP 401)
C6_Witness ==
    /\ ghost.finalKind = "terminal"
    /\ Len(ghost.calls) = 2
    /\ Contains(f.retErr, "401")
    /\ f.pc = "returned"

\* C7: a call of fetchPRBatch that runs into its 30s timeout fails with an
\* error that is classified transient, so the batch is retried unless this
\* was its 3rd attempt.
C7_TimeoutIsTransient ==
    \A i \in 1..Len(ghost.calls) :
        ghost.calls[i].kind = "deadline"
            => /\ ghost.calls[i].class = "transient"
               /\ (i = Len(ghost.calls) /\ i < 3 => f.pc = "attempt")

\* C8: a successful batch with fewer records than requested is the last
\* remote call of the fetch, which returns the accumulated records and no
\* error although remaining > 0.
C8_ShortBatchStops ==
    (ghost.finalKind = "short")
        => /\ ghost.nCalls = ghost.final
           /\ f.pc = "returned"
           /\ f.retErr = NoErr
           /\ f.retPRs = ghost.delivered
           /\ f.retCursor = f.currentCursor

\* the third batch of a fetch of 300 came back short and 50 were still wanted
C8_Witness ==
    /\ ghost.finalKind = "short"
    /\ f.pc = "returned"
    /\ f.remaining > 0
    /\ f.batchNum = 3
    /\ Len(f.retPRs) = RemoteTotal

\* C11: during a fetch, recordRequest has been called once for every call of
\* fetchPRBatch that has completed, so requestCount equals the number of
\* remote calls completed so far.
C11_RecordRequestPerRemoteCall ==
    run.pc = "fetching" => rl.requestCount = ghost.nCalls

DeliveredBefore ==
    Len(ghost.delivered)
      - (IF ghost.calls = <<>> THEN 0 ELSE ghost.calls[Len(ghost.calls)].n)

\* C27: every call of fetchPRBatch asks for min(remaining, 100) records,
\* remaining being the limit less the records delivered by the batches
\* before; the calls of the first batch start at the cursor the caller
\* supplied, those of a later batch at the end cursor of the successful call
\* of the batch before, right after the records delivered so far; a call
\* that succeeded ends its batch; and the records returned are the pages of
\* the successful calls in call order, a stretch of the remote list without
\* gap or repetition.
C27_SequentialBatches ==
    /\ \A i \in 1..Len(ghost.calls) :
          LET c == ghost.calls[i]
          IN  /\ c.limit = Min(f.limit - DeliveredBefore, maxPerRequest)
              /\ c.limit > 0
              /\ c.batch = 1 => c.after = f.afterCursor
              /\ c.after = ghost.startCursor + DeliveredBefore
              /\ c.class = "ok" => i = Len(ghost.calls)
              /\ (c.class = "ok" /\ c.n > 0) => ghost.lastCursor = c.after + c.n
              /\ (i = Len(ghost.calls) /\ c.class # "ok") => c.after = ghost.lastCursor
    /\ f.pc = "attempt" =>
          /\ f.batchSize = Min(f.limit - Len(ghost.delivered), maxPerRequest)
          /\ f.currentCursor = ghost.lastCursor
    /\ f.pc = "returned" =>
          /\ f.retPRs = ghost.delivered
          /\ f.retPRs = SubSeq(Remote, ghost.startCursor + 1,
                               ghost.startCursor + Len(f.retPRs))

\* an incremental fetch of 100 records from the cursor after record 50 has
\* returned them, requested in one batch
C27_Witness ==
    /\ f.pc = "returned"
    /\ f.afterCursor = 50
    /\ f.limit = 100
    /\ f.batchNum = 1
    /\ Len(f.retPRs) = 100
    /\ f.retPRs[1] = 51

\* a fresh fetch of 150 records has returned them, requested as 100 and 50
C27_WitnessTwoBatches ==
    /\ f.pc = "returned"
    /\ f.limit = 150
    /\ f.batchNum = 2
    /\ f.batchSize = 50
    /\ Len(f.retPRs) = 150
    /\ f.retErr = NoErr

\* C28: the cursor a fetch returns, with or without an error, is the end
\* cursor of its last successful call, or the cursor it was called with
\* when no call succeeded; it is the position right after the last record
\* returned.
C28_ReturnedCursorIsLatest ==
    f.pc = "returned" =>
        /\ f.retCursor = ghost.lastCursor
        /\ f.retCursor = ghost.startCursor + Len(f.retPRs)

\* C35: when runWatch has loaded the cached records, metadata.MaxLimit is
\* their number, so the cache-hit slice cachedPRs[:limit] is within the
\* list and has limit records.
C35_MaxLimitCountsCachedRecords ==
    (run.pc # "idle" /\ run.hasCachedPRs) =>
        /\ run.metadata.MaxLimit = Len(run.cachedPRs)
        /\ run.pc # "panic"
        /\ (run.branch = "hit" /\ run.pc = "done") =>
               run.prs = SubSeq(run.cachedPRs, 1, run.limit)

\* C36: the cursor in the cache is the position right after the last
\* cached record, and the list of an incremental invocation is the head of
\* the remote list, each record once.
C36_CachedCursorFollowsRecords ==
    /\ (cache[metadataKey].present /\ cache[prsKey].present) =>
           cache[metadataKey].payload.Cursor = Len(cache[prsKey].payload)
    /\ (run.pc = "done" /\ run.branch = "incremental") =>
           run.prs = SubSeq(Remote, 1, Len(run.prs))

\* C39: an invocation whose fetch returned an error leaves a cached list
\* in place, and one at least as long as it was.
C39_FetchErrorKeepsCachedWork ==
    [][ (run.pc = "fetching" /\ f.pc = "returned" /\ f.retErr # NoErr
         /\ cache[prsKey].present) =>
            /\ cache'[prsKey].present
            /\ Len(cache'[prsKey].payload) >= Len(cache[prsKey].payload)
      ]_vars

\* limit / 100 rounded up
CeilBatches(limit) == (limit + maxPerRequest - 1) \div maxPerRequest

\* C38: a call of FetchNixpkgsPRsWithCursor returns, whatever the remote
\* source does, after at most ceil(limit / 100) batches of at most 3
\* remote calls each.
C38_FetchTerminates ==
    /\ [](f.pc # "none" =>
             /\ f.batchNum <= CeilBatches(f.limit)
             /\ f.attempt <= maxRetries
             /\ ghost.nCalls <= maxRetries * f.batchNum)
    /\ <>(f.pc = "returned")

\* a fetch of 201 records returned after three full batches, two failed
\* calls before each success
C38_Witness ==
    /\ f.pc = "returned"
    /\ f.limit = 201
    /\ f.batchNum = 3
    /\ ghost.nCalls = 9
    /\ f.retErr = NoErr

\* C37: the records an invocation takes from the cache were fetched under
\* the base-branch filter it asks for, and a resumed fetch continues from
\* a cursor obtained under that filter.
C37_CacheMatchesBaseBranch ==
    run.pc = "done" =>
        /\ \A i \in 1..Len(run.prs) :
               i <= Len(run.cachedPRs) => run.prs[i].baseBranch = run.baseBranch
        /\ (run.branch = "incremental" /\ run.afterCursor.pos > 0) =>
               run.afterCursor.baseBranch = run.baseBranch

(***************************************************************************)
(* Properties of the rate limiter, checked under SpecRL.                   *)
(***************************************************************************)
\* baseDelay * backoffRate^(k-1), rounded down to a nanosecond, for the k
\* requests recorded when Wait was called
ExactDelay == Dur(FALSE, FloatDelay([rl EXCEPT !.requestCount = lastWait.count]))

\* C9: with k recorded requests the delay of the next Wait is 0 when k = 0
\* and min(baseDelay * backoffRate^(k-1), maxDelay) when k >= 1.
C9_DelayFormula ==
    /\ lastWait.count = 0 => lastWait.delay = DurZero
    /\ lastWait.count >= 1 => lastWait.delay = DurMin(ExactDelay, rl.maxDelay)

\* C10: for every k >= 1 the delay is not negative and not above maxDelay,
\* and it is exactly maxDelay once baseDelay * backoffRate^(k-1) has reached
\* maxDelay.
C10_DelayCapped ==
    lastWait.count >= 1
        => /\ ~lastWait.delay.neg
           /\ ~DurLess(rl.maxDelay, lastWait.delay)
           /\ (~DurLess(ExactDelay, rl.maxDelay) => lastWait.delay = rl.maxDelay)

\* C23: a Wait with no request recorded returns 0 without blocking; with
\* k >= 1 requests recorded it blocks for min(baseDelay * backoffRate^(k-1),
\* maxDelay) and returns the time it blocked.
C23_WaitBlocksAndReturnsDelay ==
    /\ lastWait.count = 0 => (lastWait.slept = DurZero /\ lastWait.returned = DurZero)
    /\ lastWait.count >= 1 =>
          /\ lastWait.slept = DurMin(ExactDelay, rl.maxDelay)
          /\ lastWait.returned = lastWait.slept

(***************************************************************************)
(* Properties of the rate limiter under concurrent calls, checked under    *)
(* SpecConc.                                                               *)
(***************************************************************************)
\* the delay of a Wait that runs alone with k requests recorded
SerialDelay(k) == WaitDelay([rl EXCEPT !.requestCount = k], goarch)

\* C24: no update of requestCount is lost: it is never below the number of
\* recordRequest calls returned nor above the number made, so it is exactly
\* N once N concurrent calls have all returned; and the delay a returned
\* Wait slept is the delay for a number of requests between those returned
\* when it was called and those made when it returned, a value the counter
\* has in some serial order of the calls.
C24_NoLostUpdate ==
    /\ gs.completed <= rl.requestCount
    /\ rl.requestCount <= gs.called
    /\ \A c \in Callers :
          (gs.g[c].op = "Wait" /\ gs.g[c].pc = "done")
             => \E k \in gs.g[c].lo..gs.g[c].hi : gs.g[c].delay = SerialDelay(k)

\* two recordRequest calls and a Wait have all returned; the Wait was called
\* before either recordRequest had returned and slept the delay for one
\* request
C24_Witness ==
    /\ \A c \in Callers : gs.g[c].pc = "done"
    /\ gs.completed = 2
    /\ rl.requestCount = 2
    /\ \E c \in Callers :
          /\ gs.g[c].op = "Wait"
          /\ gs.g[c].lo = 0
          /\ gs.g[c].delay = SerialDelay(1)
====
